---- MODULE Spec2Model ----
(***************************************************************************)
(* Compliance decision engine of arka-examples: the loan evaluator         *)
(* (loan-domain/scripts/run-loan-simulations.ts, evaluateLoanDirectly) and *)
(* the AML evaluator (aml-domain/scripts/run-aml-simulations.ts,           *)
(* evaluateTransaction), each driven by its script's batch loop.           *)
(*                                                                         *)
(* Rates and ratios are held in whole percent: the source's 0.36 is 36,    *)
(* its 0.43 is 43.  Every threshold of the source is a decimal literal     *)
(* with at most two places, so the comparisons are unchanged.              *)
(* An optional field is a sequence: <<>> when absent, <<v>> when present.  *)
(***************************************************************************)
EXTENDS Integers, Sequences, FiniteSets, TLC

VARIABLES
    script,          \* which script runs: "loan" or "aml"
    datasetFiles,    \* the dataset files of the run, each as its records in file order
    fileIndex,       \* which file the outer loop is at
    dataset,         \* dataset.loans / data.transactions of that file
    cursor,          \* which record of it the inner loop is at
    allResults,      \* loan main(): allResults
    results,         \* AML runSimulations(): results of the file being processed
    errors,          \* what console.error was called for
    summary,         \* loan main(): summary, <<>> until generateSummary has run
    allReports,      \* AML runSimulations(): allReports
    AML_THRESHOLDS   \* the AML_THRESHOLDS object the AML script imports

vars == <<script, datasetFiles, fileIndex, dataset, cursor, allResults, results, errors,
          summary, allReports, AML_THRESHOLDS>>

(***************************************************************************)
(* Generic helpers                                                         *)
(***************************************************************************)
Range(s) == {s[i] : i \in 1..Len(s)}

\* Array.prototype.includes on the array built so far
Includes(s, x) == \E i \in 1..Len(s) : s[i] = x

\* [...new Set(flags)]: first occurrences, in insertion order
RECURSIVE Dedupe(_)
Dedupe(s) ==
    IF s = <<>> THEN <<>>
    ELSE LET front == Dedupe(SubSeq(s, 1, Len(s) - 1))
             last  == s[Len(s)]
         IN  IF Includes(front, last) THEN front ELSE Append(front, last)

\* truthiness of an optional boolean (undefined is falsy)
Truthy(opt) == opt # <<>> /\ opt[1]

(***************************************************************************)
(* Loan evaluator                                                          *)
(***************************************************************************)
\* aprCaps table; cap in percent
aprCaps ==
    [j \in {"US-CA", "US-NY", "US-TX", "US-CT", "US-AR"} |->
        CASE j = "US-CA" -> [cap |-> 36, code |-> "CA_APR_EXCEEDED"]
          [] j = "US-NY" -> [cap |-> 25, code |-> "NY_APR_EXCEEDED"]
          [] j = "US-TX" -> [cap |-> 18, code |-> "TX_APR_EXCEEDED"]
          [] j = "US-CT" -> [cap |-> 12, code |-> "CT_APR_EXCEEDED"]
          [] j = "US-AR" -> [cap |-> 17, code |-> "AR_APR_EXCEEDED"]]

\* `loans-${loan.jurisdiction.toLowerCase().replace('-', '')}-apr-cap`
AprCapRuleId(jurisdiction) ==
    CASE jurisdiction = "US-CA" -> "loans-usca-apr-cap"
      [] jurisdiction = "US-NY" -> "loans-usny-apr-cap"
      [] jurisdiction = "US-TX" -> "loans-ustx-apr-cap"
      [] jurisdiction = "US-CT" -> "loans-usct-apr-cap"
      [] jurisdiction = "US-AR" -> "loans-usar-apr-cap"

\* payload.loan.principal || payload.loan.amount || 0
Principal(payload) ==
    IF payload.loan.principal # 0 THEN payload.loan.principal
    ELSE IF payload.loan.amount # <<>> /\ payload.loan.amount[1] # 0
         THEN payload.loan.amount[1]
         ELSE 0

\* payload = { loan, borrower, lender, flags: loan.flags || {} }
Payload(loan) ==
    [loan     |-> loan.loan,
     borrower |-> loan.borrower,
     flags    |-> IF loan.flags = <<>> THEN [isMilitary |-> <<>>] ELSE loan.flags[1]]

\* const flags: string[] = [] at the head of each call
NewLoanFlagsCarried == IF allResults = <<>> THEN <<>> ELSE allResults[Len(allResults)].flags
NewLoanFlags == <<>>

\* const rulesTriggered: RuleEvaluation[] = [] at the head of each call
NewRulesTriggered == <<>>

\* a matched rule: set finalDecision, flags.push(code), rulesTriggered.push({...})
LoanRuleMatchedPrepend(st, decision, ruleId, code) ==
    [finalDecision  |-> decision,
     flags          |-> <<code>> \o st.flags,
     rulesTriggered |-> <<[ruleId |-> ruleId, matched |-> TRUE, decision |-> decision, code |-> code]>>
                        \o st.rulesTriggered]
LoanRuleMatchedTrailOnly(st, decision, ruleId, code) ==
    [finalDecision  |-> decision,
     flags          |-> st.flags,
     rulesTriggered |-> Append(st.rulesTriggered,
                          [ruleId |-> ruleId, matched |-> TRUE, decision |-> decision, code |-> code])]
LoanRuleMatched(st, decision, ruleId, code) ==
    [finalDecision  |-> decision,
     flags          |-> Append(st.flags, code),
     rulesTriggered |-> Append(st.rulesTriggered,
                          [ruleId |-> ruleId, matched |-> TRUE, decision |-> decision, code |-> code])]

\* The rules of evaluateLoanDirectly in source order, named by ruleId.  The
\* first deny rule is the jurisdiction's APR cap, whose ruleId and code come
\* from the jurisdiction ("loans-apr-cap" stands for it in these tables).
LoanDenyOrder ==
    <<"loans-apr-cap", "loans-deep-subprime-denial", "loans-high-dti-denial",
      "loans-repeat-delinquent-denial", "loans-mla-apr-cap", "loans-unemployed-denial",
      "loans-payday-subprime-denial">>

LoanFlagOrder ==
    <<"loans-subprime-flag", "loans-near-prime-flag", "loans-qm-dti-flag",
      "loans-shadow-apr-risk", "loans-shadow-dti-risk", "loans-shadow-credit-risk",
      "loans-first-time-low-credit", "loans-first-time-high-amount",
      "loans-recent-delinquency-flag", "loans-multiple-delinquencies",
      "loans-high-risk-combo", "loans-predatory-pattern", "loans-large-loan-review",
      "loans-jumbo-loan-review", "loans-payday-scrutiny", "loans-student-borrower-flag">>

\* payload.loan.apr > aprRule.cap
AprOverCapInclusive(apr, cap) == apr >= cap
AprOverCap(apr, cap) == apr > cap

\* debtToIncomeRatio >= 0.40 && debtToIncomeRatio <= 0.43
ShadowDtiBandOpenEnded(debtToIncomeRatio) == debtToIncomeRatio >= 40
ShadowDtiBand(debtToIncomeRatio) == debtToIncomeRatio >= 40 /\ debtToIncomeRatio <= 43

\* the condition of each rule's if statement
LoanRuleCondition(rule, loan) ==
    LET payload == Payload(loan) IN
    CASE rule = "loans-apr-cap" ->
            /\ loan.jurisdiction \in DOMAIN aprCaps
            /\ AprOverCap(payload.loan.apr, aprCaps[loan.jurisdiction].cap)
      [] rule = "loans-deep-subprime-denial" -> payload.borrower.creditScore < 500
      [] rule = "loans-high-dti-denial" -> payload.borrower.debtToIncomeRatio > 60
      [] rule = "loans-repeat-delinquent-denial" ->
            \/ payload.borrower.delinquencyHistory = "BANKRUPTCY"
            \/ payload.borrower.delinquencyHistory = "CHARGED_OFF"
      [] rule = "loans-mla-apr-cap" ->
            Truthy(payload.flags.isMilitary) /\ payload.loan.apr > 36
      [] rule = "loans-unemployed-denial" ->
            /\ payload.borrower.employmentStatus = "UNEMPLOYED"
            /\ ~Truthy(payload.borrower.hasCosigner)
      [] rule = "loans-payday-subprime-denial" ->
            /\ payload.loan.productType = "PAYDAY"
            /\ payload.borrower.riskBand \in {"SUBPRIME", "DEEP_SUBPRIME"}
      [] rule = "loans-subprime-flag" ->
            payload.borrower.creditScore >= 500 /\ payload.borrower.creditScore < 580
      [] rule = "loans-near-prime-flag" ->
            payload.borrower.creditScore >= 580 /\ payload.borrower.creditScore < 670
      [] rule = "loans-qm-dti-flag" ->
            payload.borrower.debtToIncomeRatio > 43 /\ payload.borrower.debtToIncomeRatio <= 60
      [] rule = "loans-shadow-apr-risk" -> payload.loan.apr >= 32 /\ payload.loan.apr <= 36
      [] rule = "loans-shadow-dti-risk" -> ShadowDtiBand(payload.borrower.debtToIncomeRatio)
      [] rule = "loans-shadow-credit-risk" ->
            payload.borrower.creditScore >= 580 /\ payload.borrower.creditScore < 600
      [] rule = "loans-first-time-low-credit" ->
            payload.borrower.isFirstTimeBorrower /\ payload.borrower.creditScore < 650
      [] rule = "loans-first-time-high-amount" ->
            payload.borrower.isFirstTimeBorrower /\ Principal(payload) > 50000
      [] rule = "loans-recent-delinquency-flag" ->
            payload.borrower.delinquencyHistory \in {"PAST_90", "PAST_120"}
      [] rule = "loans-multiple-delinquencies" ->
            payload.borrower.delinquenciesLast24Months >= 3
      [] rule = "loans-high-risk-combo" ->
            /\ payload.loan.apr > 25
            /\ payload.loan.termMonths > 48
            /\ payload.borrower.creditScore < 620
      [] rule = "loans-predatory-pattern" ->
            /\ payload.loan.apr > 28
            /\ ~payload.loan.isSecured
            /\ payload.borrower.debtToIncomeRatio > 45
      [] rule = "loans-large-loan-review" -> Principal(payload) > 100000
      [] rule = "loans-jumbo-loan-review" -> Principal(payload) > 726200
      [] rule = "loans-payday-scrutiny" -> payload.loan.productType = "PAYDAY"
      [] rule = "loans-student-borrower-flag" -> payload.borrower.employmentStatus = "STUDENT"

\* the ruleId a matched rule records
LoanRuleId(rule, loan) ==
    IF rule = "loans-apr-cap" THEN AprCapRuleId(loan.jurisdiction) ELSE rule

\* the code a matched rule pushes to flags and records
LoanRuleCode(rule, loan) ==
    CASE rule = "loans-apr-cap" -> aprCaps[loan.jurisdiction].code
      [] rule = "loans-deep-subprime-denial" -> "DEEP_SUBPRIME_CREDIT"
      [] rule = "loans-high-dti-denial" -> "EXCESSIVE_DTI"
      [] rule = "loans-repeat-delinquent-denial" -> "SEVERE_DELINQUENCY_HISTORY"
      [] rule = "loans-mla-apr-cap" -> "MLA_VIOLATION"
      [] rule = "loans-unemployed-denial" -> "UNEMPLOYED_NO_COSIGNER"
      [] rule = "loans-payday-subprime-denial" -> "PAYDAY_SUBPRIME_DENIAL"
      [] rule = "loans-subprime-flag" -> "SUBPRIME_CREDIT"
      [] rule = "loans-near-prime-flag" -> "NEAR_PRIME_CREDIT"
      [] rule = "loans-qm-dti-flag" -> "HIGH_DTI"
      [] rule = "loans-shadow-apr-risk" -> "SHADOW_APR_RISK"
      [] rule = "loans-shadow-dti-risk" -> "SHADOW_DTI_RISK"
      [] rule = "loans-shadow-credit-risk" -> "SHADOW_CREDIT_RISK"
      [] rule = "loans-first-time-low-credit" -> "FIRST_TIME_LOW_CREDIT"
      [] rule = "loans-first-time-high-amount" -> "FIRST_TIME_HIGH_AMOUNT"
      [] rule = "loans-recent-delinquency-flag" -> "RECENT_DELINQUENCY"
      [] rule = "loans-multiple-delinquencies" -> "MULTIPLE_DELINQUENCIES"
      [] rule = "loans-high-risk-combo" -> "HIGH_RISK_COMBINATION"
      [] rule = "loans-predatory-pattern" -> "PREDATORY_PATTERN"
      [] rule = "loans-large-loan-review" -> "LARGE_LOAN_REVIEW"
      [] rule = "loans-jumbo-loan-review" -> "JUMBO_LOAN"
      [] rule = "loans-payday-scrutiny" -> "PAYDAY_LOAN_SCRUTINY"
      [] rule = "loans-student-borrower-flag" -> "STUDENT_BORROWER"

\* the if statements of one block run top to bottom; each one that holds
\* assigns finalDecision and pushes to flags and rulesTriggered
RECURSIVE LoanRunRules(_, _, _, _)
LoanRunRules(order, decision, loan, st) ==
    IF order = <<>> THEN st
    ELSE LET rule == Head(order)
             next == IF LoanRuleCondition(rule, loan)
                     THEN LoanRuleMatched(st, decision, LoanRuleId(rule, loan),
                                          LoanRuleCode(rule, loan))
                     ELSE st
         IN  LoanRunRules(Tail(order), decision, loan, next)

\* if (finalDecision !== 'DENY') { ...flag rules... }
LoanFlagPhaseInverted(loan, st) ==
    IF st.finalDecision = "DENY"
    THEN LoanRunRules(LoanFlagOrder, "ALLOW_WITH_FLAGS", loan, st)
    ELSE st
LoanFlagPhaseUnguarded(loan, st) == LoanRunRules(LoanFlagOrder, "ALLOW_WITH_FLAGS", loan, st)
LoanFlagPhase(loan, st) ==
    IF st.finalDecision # "DENY"
    THEN LoanRunRules(LoanFlagOrder, "ALLOW_WITH_FLAGS", loan, st)
    ELSE st

\* Math.max(0, Math.min(100, riskScore))
ClampNoUpper(x) == IF x < 0 THEN 0 ELSE x
Clamp(x) == IF x < 0 THEN 0 ELSE IF x > 100 THEN 100 ELSE x

\* the unclamped sum: base 50 plus the four deltas
RawRiskScoreReadsHistory(payload) ==
    50
    + (IF payload.borrower.creditScore < 580 THEN 20
       ELSE IF payload.borrower.creditScore < 670 THEN 10
       ELSE IF payload.borrower.creditScore >= 740 THEN -15 ELSE 0)
    + (IF payload.borrower.debtToIncomeRatio > 50 THEN 15
       ELSE IF payload.borrower.debtToIncomeRatio > 43 THEN 8
       ELSE IF payload.borrower.debtToIncomeRatio < 30 THEN -10 ELSE 0)
    + (IF payload.borrower.delinquenciesLast24Months > 0
       THEN payload.borrower.delinquenciesLast24Months * 5 ELSE 0)
    + (IF payload.loan.apr > 30 THEN 10 ELSE 0)
    + (IF payload.borrower.delinquencyHistory = "BANKRUPTCY" THEN 20 ELSE 0)
RawRiskScore(payload) ==
    50
    + (IF payload.borrower.creditScore < 580 THEN 20
       ELSE IF payload.borrower.creditScore < 670 THEN 10
       ELSE IF payload.borrower.creditScore >= 740 THEN -15 ELSE 0)
    + (IF payload.borrower.debtToIncomeRatio > 50 THEN 15
       ELSE IF payload.borrower.debtToIncomeRatio > 43 THEN 8
       ELSE IF payload.borrower.debtToIncomeRatio < 30 THEN -10 ELSE 0)
    + (IF payload.borrower.delinquenciesLast24Months > 0
       THEN payload.borrower.delinquenciesLast24Months * 5 ELSE 0)
    + (IF payload.loan.apr > 30 THEN 10 ELSE 0)

evaluateLoanDirectly(loan) ==
    LET payload == Payload(loan)
        start   == [finalDecision |-> "ALLOW", flags |-> NewLoanFlags,
                    rulesTriggered |-> NewRulesTriggered]
        denied  == LoanRunRules(LoanDenyOrder, "DENY", loan, start)
        final   == LoanFlagPhase(loan, denied)
    IN  [loanId         |-> loan.id,
         jurisdiction   |-> loan.jurisdiction,
         decision       |-> final.finalDecision,
         flags          |-> Dedupe(final.flags),
         rulesTriggered |-> final.rulesTriggered,
         riskScore      |-> Clamp(RawRiskScore(payload))]

(***************************************************************************)
(* Loan applications of the bounded datasets                               *)
(***************************************************************************)
\* a loan no rule matches: ALLOW, no flags, risk score 50
BaseLoan ==
    [id           |-> "loan-001",
     jurisdiction |-> "US-CA",
     loan         |-> [apr |-> 20, principal |-> 10000, amount |-> <<>>, termMonths |-> 36,
                       productType |-> "PERSONAL", isSecured |-> FALSE],
     borrower     |-> [creditScore |-> 700, debtToIncomeRatio |-> 35,
                       employmentStatus |-> "EMPLOYED", riskBand |-> "PRIME",
                       isFirstTimeBorrower |-> FALSE, delinquencyHistory |-> "NONE",
                       delinquenciesLast24Months |-> 0, hasCosigner |-> <<>>],
     flags        |-> <<>>]

\* single-field changes <<section, field, value>> applied to BaseLoan
LoanChanges ==
    {<<"top", "jurisdiction", j>> : j \in {"US-NY", "US-TX", "US-CT", "US-AR", "US-FL"}}
    \cup {<<"top", "flags", f>> : f \in {<<[isMilitary |-> <<TRUE>>]>>, <<[isMilitary |-> <<>>]>>}}
    \cup {<<"loan", "apr", a>> :
            a \in {-5, 10, 12, 17, 18, 25, 26, 29, 30, 31, 32, 36, 37, 45, 500}}
    \cup {<<"loan", "principal", p>> : p \in {-2000, 0, 50001, 100001, 726201}}
    \cup {<<"loan", "amount", a>> : a \in {<<60000>>}}
    \cup {<<"loan", "termMonths", t>> : t \in {48, 60}}
    \cup {<<"loan", "productType", "PAYDAY">>, <<"loan", "isSecured", TRUE>>}
    \cup {<<"borrower", "creditScore", c>> :
            c \in {-100, 499, 500, 579, 580, 599, 600, 619, 649, 669, 740, 2000}}
    \cup {<<"borrower", "debtToIncomeRatio", d>> : d \in {-10, 29, 40, 43, 44, 46, 51, 60, 61, 500}}
    \cup {<<"borrower", "employmentStatus", e>> : e \in {"UNEMPLOYED", "STUDENT"}}
    \cup {<<"borrower", "riskBand", b>> : b \in {"SUBPRIME", "DEEP_SUBPRIME"}}
    \cup {<<"borrower", "isFirstTimeBorrower", TRUE>>}
    \cup {<<"borrower", "delinquencyHistory", h>> : h \in {"PAST_90", "PAST_120", "BANKRUPTCY", "CHARGED_OFF"}}
    \cup {<<"borrower", "delinquenciesLast24Months", n>> : n \in {-5, 1, 3, 9, 1000}}
    \cup {<<"borrower", "hasCosigner", c>> : c \in {<<TRUE>>, <<FALSE>>}}

Change(rec, c) ==
    IF c[1] = "top" THEN [rec EXCEPT ![c[2]] = c[3]]
    ELSE [rec EXCEPT ![c[1]][c[2]] = c[3]]

\* every record at most k changes away from base
RECURSIVE Within(_, _, _)
Within(base, changes, k) ==
    IF k = 0 THEN {base}
    ELSE LET inner == Within(base, changes, k - 1)
         IN  inner \cup {Change(r, c) : r \in inner, c \in changes}

MaxChanges == 2

\* README, Expected Results: "a loan with 30% APR and 60-month term", here
\* with a borrower credit score of 600
HighRiskLoan ==
    [BaseLoan EXCEPT !.id = "loan-002", !.loan.apr = 30, !.loan.termMonths = 60,
                     !.borrower.creditScore = 600]

LoanInputs ==
    Within(BaseLoan, LoanChanges, MaxChanges)
    \cup Within(HighRiskLoan, LoanChanges, MaxChanges - 1)

(***************************************************************************)
(* AML evaluator                                                           *)
(***************************************************************************)
\* The text of a flag or of an expected-flag hint as its characters, for
\* toLowerCase() and includes().
Chars(s) ==
    CASE   s = "Watchlist Match" ->
          <<"W", "a", "t", "c", "h", "l", "i", "s", "t", " ", "M", "a", "t", "c", "h">>
      [] s = "Adverse Media Alert" ->
          <<"A", "d", "v", "e", "r", "s", "e", " ", "M", "e", "d", "i", "a", " ", "A", "l", "e", "r", "t">>
      [] s = "Critical Risk Customer" ->
          <<"C", "r", "i", "t", "i", "c", "a", "l", " ", "R", "i", "s", "k", " ", "C", "u", "s", "t", "o", "m", "e", "r">>
      [] s = "CTR Filing Required" ->
          <<"C", "T", "R", " ", "F", "i", "l", "i", "n", "g", " ", "R", "e", "q", "u", "i", "r", "e", "d">>
      [] s = "Structuring Amount Detection" ->
          <<"S", "t", "r", "u", "c", "t", "u", "r", "i", "n", "g", " ", "A", "m", "o", "u", "n", "t", " ", "D", "e", "t", "e", "c", "t", "i", "o", "n">>
      [] s = "Structuring Pattern Detection" ->
          <<"S", "t", "r", "u", "c", "t", "u", "r", "i", "n", "g", " ", "P", "a", "t", "t", "e", "r", "n", " ", "D", "e", "t", "e", "c", "t", "i", "o", "n">>
      [] s = "PEP Enhanced Threshold" ->
          <<"P", "E", "P", " ", "E", "n", "h", "a", "n", "c", "e", "d", " ", "T", "h", "r", "e", "s", "h", "o", "l", "d">>
      [] s = "PEP Transaction" ->
          <<"P", "E", "P", " ", "T", "r", "a", "n", "s", "a", "c", "t", "i", "o", "n">>
      [] s = "FATF Grey List Country" ->
          <<"F", "A", "T", "F", " ", "G", "r", "e", "y", " ", "L", "i", "s", "t", " ", "C", "o", "u", "n", "t", "r", "y">>
      [] s = "High-Risk Country Amount" ->
          <<"H", "i", "g", "h", "-", "R", "i", "s", "k", " ", "C", "o", "u", "n", "t", "r", "y", " ", "A", "m", "o", "u", "n", "t">>
      [] s = "High Velocity 24H" ->
          <<"H", "i", "g", "h", " ", "V", "e", "l", "o", "c", "i", "t", "y", " ", "2", "4", "H">>
      [] s = "Unusual Amount Pattern" ->
          <<"U", "n", "u", "s", "u", "a", "l", " ", "A", "m", "o", "u", "n", "t", " ", "P", "a", "t", "t", "e", "r", "n">>
      [] s = "Round Amount Pattern" ->
          <<"R", "o", "u", "n", "d", " ", "A", "m", "o", "u", "n", "t", " ", "P", "a", "t", "t", "e", "r", "n">>
      [] s = "MSB Transaction" ->
          <<"M", "S", "B", " ", "T", "r", "a", "n", "s", "a", "c", "t", "i", "o", "n">>
      [] s = "Crypto Business Transaction" ->
          <<"C", "r", "y", "p", "t", "o", " ", "B", "u", "s", "i", "n", "e", "s", "s", " ", "T", "r", "a", "n", "s", "a", "c", "t", "i", "o", "n">>
      [] s = "Casino/Gambling Transaction" ->
          <<"C", "a", "s", "i", "n", "o", "/", "G", "a", "m", "b", "l", "i", "n", "g", " ", "T", "r", "a", "n", "s", "a", "c", "t", "i", "o", "n">>
      [] s = "Basic KYC High Amount" ->
          <<"B", "a", "s", "i", "c", " ", "K", "Y", "C", " ", "H", "i", "g", "h", " ", "A", "m", "o", "u", "n", "t">>
      [] s = "Dormant Account Reactivation" ->
          <<"D", "o", "r", "m", "a", "n", "t", " ", "A", "c", "c", "o", "u", "n", "t", " ", "R", "e", "a", "c", "t", "i", "v", "a", "t", "i", "o", "n">>
      [] s = "structuring" ->
          <<"s", "t", "r", "u", "c", "t", "u", "r", "i", "n", "g">>
      [] s = "CTR" ->
          <<"C", "T", "R">>
      [] s = "pep" ->
          <<"p", "e", "p">>
      [] s = "Watchlist Match Found" ->
          <<"W", "a", "t", "c", "h", "l", "i", "s", "t", " ", "M", "a", "t", "c", "h", " ", "F", "o", "u", "n", "d">>
      [] s = "velocity" ->
          <<"v", "e", "l", "o", "c", "i", "t", "y">>
      [] s = "SANCTIONS" ->
          <<"S", "A", "N", "C", "T", "I", "O", "N", "S">>

UpperCaseLetters ==
    <<"A", "B", "C", "D", "E", "F", "G", "H", "I", "J", "K", "L", "M",
      "N", "O", "P", "Q", "R", "S", "T", "U", "V", "W", "X", "Y", "Z">>
LowerCaseLetters ==
    <<"a", "b", "c", "d", "e", "f", "g", "h", "i", "j", "k", "l", "m",
      "n", "o", "p", "q", "r", "s", "t", "u", "v", "w", "x", "y", "z">>

\* String.prototype.toLowerCase, on characters
ToLowerCase(cs) ==
    [i \in 1..Len(cs) |->
        IF \E k \in 1..26 : UpperCaseLetters[k] = cs[i]
        THEN LowerCaseLetters[CHOOSE k \in 1..26 : UpperCaseLetters[k] = cs[i]]
        ELSE cs[i]]

\* String.prototype.includes, on characters: part occurs in whole
StringIncludes(whole, part) ==
    \E i \in 0..(Len(whole) - Len(part)) : SubSeq(whole, i + 1, i + Len(part)) = part

\* f.toLowerCase().includes(ef.toLowerCase()) || ef.toLowerCase().includes(f.toLowerCase())
FuzzyMatch(f, ef) ==
    \/ StringIncludes(ToLowerCase(Chars(f)), ToLowerCase(Chars(ef)))
    \/ StringIncludes(ToLowerCase(Chars(ef)), ToLowerCase(Chars(f)))

\* customer.industry.toUpperCase() of the industries of the datasets
IndustryUpper(industry) ==
    CASE industry = "retail" -> "RETAIL"
      [] industry = "money_service_business" -> "MONEY_SERVICE_BUSINESS"
      [] industry = "CRYPTOCURRENCY" -> "CRYPTOCURRENCY"
      [] industry = "Casino_Gambling" -> "CASINO_GAMBLING"

\* isStructuringAmount of the imported AML plugin, as the script documents it
\* at its call: "Structuring amount detection ($8,000 - $9,999)"
isStructuringAmount(amount) == amount >= 8000 /\ amount <= 9999

\* recentTransactions.filter(t => t.channel === 'CASH' && isStructuringAmount(t.amount)).length
RECURSIVE StructuringTxnsLength(_)
StructuringTxnsLength(txns) ==
    IF txns = <<>> THEN 0
    ELSE (IF Head(txns).channel = "CASH" /\ isStructuringAmount(Head(txns).amount) THEN 1 ELSE 0)
         + StructuringTxnsLength(Tail(txns))

\* The rules of evaluateTransaction in source order, named by the rule id
\* each pushes to matchedRules.
AmlDenyOrder ==
    <<"aml-sanctioned-customer-block", "aml-sanctioned-country-block",
      "aml-very-high-risk-country-block", "aml-frozen-account-block", "aml-no-kyc-block">>

AmlFlagOrder ==
    <<"aml-watchlist-flag", "aml-adverse-media-flag", "aml-critical-risk-flag",
      "aml-ctr-threshold", "aml-structuring-amount", "aml-structuring-pattern",
      "aml-pep-enhanced", "aml-pep-any", "aml-fatf-greylist",
      "aml-high-risk-country-amount", "aml-offshore-center", "aml-high-velocity-24h",
      "aml-unusual-amount", "aml-round-amount", "aml-msb-transaction",
      "aml-crypto-business", "aml-casino-transaction", "aml-basic-kyc-high-amount",
      "aml-dormant-reactivation">>

\* dailyStats && dailyStats.transactionCount > AML_THRESHOLDS.HIGH_VELOCITY_COUNT_24H
HighVelocityAbsentAsMatch(dailyStats) ==
    dailyStats = <<>> \/ dailyStats[1].transactionCount > AML_THRESHOLDS.HIGH_VELOCITY_COUNT_24H
HighVelocity(dailyStats) ==
    dailyStats # <<>> /\ dailyStats[1].transactionCount > AML_THRESHOLDS.HIGH_VELOCITY_COUNT_24H

\* the condition under which each rule's push is reached; destCountryRisk
\* is what the imported getCountryRisk returned for transaction.destCountry
AmlOffshoreConditionWidened(destCountryRisk) == destCountryRisk \in {"HIGH", "MEDIUM"}
AmlOffshoreCondition(destCountryRisk) == destCountryRisk = "MEDIUM"

\* the else branch of if (customer.isPEP) { if (amount >= PEP_ENHANCED_THRESHOLD) ... }
PepAnyAlways(customer, transaction) == customer.isPEP
PepAny(customer, transaction) ==
    customer.isPEP /\ ~(transaction.amount >= AML_THRESHOLDS.PEP_ENHANCED_THRESHOLD)

AmlRuleCondition(rule, scenario) ==
    LET transaction == scenario.transaction
        account == scenario.account
        customer == scenario.customer
        dailyStats == scenario.dailyStats
        recentTransactions == scenario.recentTransactions
        destCountryRisk == scenario.imported.getCountryRisk
    IN
    CASE rule = "aml-sanctioned-customer-block" -> customer.sanctionsHits > 0
      [] rule = "aml-sanctioned-country-block" -> destCountryRisk = "SANCTIONED"
      [] rule = "aml-very-high-risk-country-block" -> destCountryRisk = "VERY_HIGH"
      [] rule = "aml-frozen-account-block" -> account.status = "FROZEN"
      [] rule = "aml-no-kyc-block" -> account.kycLevel = "NONE" /\ transaction.amount > 1000
      [] rule = "aml-watchlist-flag" -> customer.watchlistHits > 0
      [] rule = "aml-adverse-media-flag" -> customer.adverseMediaHits > 0
      [] rule = "aml-critical-risk-flag" -> customer.riskScore > 80
      [] rule = "aml-ctr-threshold" ->
            transaction.channel = "CASH" /\ transaction.amount >= AML_THRESHOLDS.CTR_THRESHOLD
      [] rule = "aml-structuring-amount" ->
            isStructuringAmount(transaction.amount) /\ transaction.channel = "CASH"
      [] rule = "aml-structuring-pattern" ->
            /\ recentTransactions # <<>>
            /\ Len(recentTransactions[1]) > 0
            /\ StructuringTxnsLength(recentTransactions[1]) >= 2
            /\ isStructuringAmount(transaction.amount)
      [] rule = "aml-pep-enhanced" ->
            customer.isPEP /\ transaction.amount >= AML_THRESHOLDS.PEP_ENHANCED_THRESHOLD
      [] rule = "aml-pep-any" -> PepAny(customer, transaction)
      [] rule = "aml-fatf-greylist" -> destCountryRisk = "HIGH"
      [] rule = "aml-high-risk-country-amount" ->
            /\ destCountryRisk = "HIGH"
            /\ transaction.amount >= AML_THRESHOLDS.HIGH_RISK_COUNTRY_THRESHOLD
      [] rule = "aml-offshore-center" -> AmlOffshoreCondition(destCountryRisk)
      [] rule = "aml-high-velocity-24h" -> HighVelocity(dailyStats)
      [] rule = "aml-unusual-amount" ->
            /\ customer.typicalMonthlyVolume > 0
            /\ transaction.amount >= 5 * customer.typicalMonthlyVolume
      [] rule = "aml-round-amount" ->
            /\ Truthy(transaction.isRoundAmount) \/ scenario.imported.isRoundAmount
            /\ transaction.amount >= 5000
      [] rule = "aml-msb-transaction" -> IndustryUpper(customer.industry) = "MONEY_SERVICE_BUSINESS"
      [] rule = "aml-crypto-business" -> IndustryUpper(customer.industry) = "CRYPTOCURRENCY"
      [] rule = "aml-casino-transaction" -> IndustryUpper(customer.industry) = "CASINO_GAMBLING"
      [] rule = "aml-basic-kyc-high-amount" ->
            account.kycLevel = "BASIC" /\ transaction.amount > 10000
      [] rule = "aml-dormant-reactivation" -> account.status = "DORMANT"

\* the string each flag rule pushes to flags
AmlRuleFlag(rule) ==
    CASE rule = "aml-watchlist-flag" -> "Watchlist Match"
      [] rule = "aml-adverse-media-flag" -> "Adverse Media Alert"
      [] rule = "aml-critical-risk-flag" -> "Critical Risk Customer"
      [] rule = "aml-ctr-threshold" -> "CTR Filing Required"
      [] rule = "aml-structuring-amount" -> "Structuring Amount Detection"
      [] rule = "aml-structuring-pattern" -> "Structuring Pattern Detection"
      [] rule = "aml-pep-enhanced" -> "PEP Enhanced Threshold"
      [] rule = "aml-pep-any" -> "PEP Transaction"
      [] rule = "aml-fatf-greylist" -> "FATF Grey List Country"
      [] rule = "aml-high-risk-country-amount" -> "High-Risk Country Amount"
      [] rule = "aml-offshore-center" -> "FATF Grey List Country"
      [] rule = "aml-high-velocity-24h" -> "High Velocity 24H"
      [] rule = "aml-unusual-amount" -> "Unusual Amount Pattern"
      [] rule = "aml-round-amount" -> "Round Amount Pattern"
      [] rule = "aml-msb-transaction" -> "MSB Transaction"
      [] rule = "aml-crypto-business" -> "Crypto Business Transaction"
      [] rule = "aml-casino-transaction" -> "Casino/Gambling Transaction"
      [] rule = "aml-basic-kyc-high-amount" -> "Basic KYC High Amount"
      [] rule = "aml-dormant-reactivation" -> "Dormant Account Reactivation"

\* a deny rule that holds: decision = 'DENY'; matchedRules.push(id)
AmlDenyMatchedKeepsDecision(st, rule) ==
    [decision |-> st.decision, flags |-> st.flags, matchedRules |-> Append(st.matchedRules, rule)]
AmlDenyMatched(st, rule) ==
    [decision |-> "DENY", flags |-> st.flags, matchedRules |-> Append(st.matchedRules, rule)]

\* a flag rule that holds: flags.push(text); matchedRules.push(id)
AmlFlagMatchedNoFlag(st, rule) ==
    [decision |-> st.decision, flags |-> st.flags, matchedRules |-> Append(st.matchedRules, rule)]
AmlFlagMatched(st, rule) ==
    [decision |-> st.decision, flags |-> Append(st.flags, AmlRuleFlag(rule)),
     matchedRules |-> Append(st.matchedRules, rule)]

RECURSIVE AmlRunRules(_, _, _, _)
AmlRunRules(order, tier, scenario, st) ==
    IF order = <<>> THEN st
    ELSE LET rule == Head(order)
             next == IF AmlRuleCondition(rule, scenario)
                     THEN IF tier = "DENY" THEN AmlDenyMatched(st, rule)
                          ELSE AmlFlagMatched(st, rule)
                     ELSE st
         IN  AmlRunRules(Tail(order), tier, scenario, next)

\* if (flags.length > 0) decision = 'ALLOW_WITH_FLAGS'
AmlFinalDecisionKept(decision, flags) == decision
AmlFinalDecision(decision, flags) ==
    IF Len(flags) > 0 THEN "ALLOW_WITH_FLAGS" ELSE decision

\* passed on the path that reaches the flag comparison
AmlPassedEveryHint(decision, flags, scenario) ==
    LET passed == decision = scenario.expectedDecision IN
    IF passed /\ scenario.expectedFlags # <<>> /\ Len(scenario.expectedFlags[1]) > 0
    THEN \A k \in 1..Len(scenario.expectedFlags[1]) :
             \E i \in 1..Len(flags) : FuzzyMatch(flags[i], scenario.expectedFlags[1][k])
    ELSE passed
AmlPassed(decision, flags, scenario) ==
    LET passed == decision = scenario.expectedDecision IN
    IF passed /\ scenario.expectedFlags # <<>> /\ Len(scenario.expectedFlags[1]) > 0
    THEN LET expectedFlags == scenario.expectedFlags[1]
             matchedExpected ==
                 {k \in 1..Len(expectedFlags) :
                     \E i \in 1..Len(flags) : FuzzyMatch(flags[i], expectedFlags[k])}
         IN  Cardinality(matchedExpected) > 0
    ELSE passed

\* const flags / matchedRules: string[] = [] at the head of each call
NewAmlFlags == <<>>

NewMatchedRules == <<>>

\* whether the early return on DENY is taken
AmlReturnsEarlyNever(decision) == FALSE
AmlReturnsEarly(decision) == decision = "DENY"

evaluateTransaction(scenario) ==
    LET start  == [decision |-> "ALLOW", flags |-> NewAmlFlags, matchedRules |-> NewMatchedRules]
        denied == AmlRunRules(AmlDenyOrder, "DENY", scenario, start)
    IN  IF AmlReturnsEarly(denied.decision)
        THEN [scenarioId   |-> scenario.id,
              decision     |-> denied.decision,
              flags        |-> denied.flags,
              matchedRules |-> denied.matchedRules,
              passed       |-> denied.decision = scenario.expectedDecision]
        ELSE LET flagged  == AmlRunRules(AmlFlagOrder, "FLAG", scenario, denied)
                 decision == AmlFinalDecision(flagged.decision, flagged.flags)
             IN  [scenarioId   |-> scenario.id,
                  decision     |-> decision,
                  flags        |-> flagged.flags,
                  matchedRules |-> flagged.matchedRules,
                  passed       |-> AmlPassed(decision, flagged.flags, scenario)]

(***************************************************************************)
(* AML scenarios of the bounded datasets                                   *)
(***************************************************************************)
\* the AML_THRESHOLDS objects the runs are checked under; the script fixes
\* only the CTR threshold ("cash >= $10,000")
ThresholdConfigs ==
    {[CTR_THRESHOLD |-> 10000, PEP_ENHANCED_THRESHOLD |-> 5000,
      HIGH_RISK_COUNTRY_THRESHOLD |-> 3000, HIGH_VELOCITY_COUNT_24H |-> 10],
     [CTR_THRESHOLD |-> 10000, PEP_ENHANCED_THRESHOLD |-> 25000,
      HIGH_RISK_COUNTRY_THRESHOLD |-> 10000, HIGH_VELOCITY_COUNT_24H |-> 20]}

\* a scenario no rule matches: ALLOW, no flags.  getCountryRisk and
\* isRoundAmount are imported from the AML plugin; `imported` holds what they
\* return for this transaction (getCountryRisk(transaction.destCountry), one
\* of the five classes the script tests for, and isRoundAmount(transaction.amount)).
BaseScenario ==
    [id          |-> "txn-001",
     transaction |-> [amount |-> 500, channel |-> "WIRE", isRoundAmount |-> <<>>],
     account     |-> [status |-> "ACTIVE", kycLevel |-> "FULL"],
     customer    |-> [sanctionsHits |-> 0, watchlistHits |-> 0, adverseMediaHits |-> 0,
                      riskScore |-> 20, isPEP |-> FALSE, typicalMonthlyVolume |-> 100000,
                      industry |-> "retail"],
     imported    |-> [getCountryRisk |-> "LOW", isRoundAmount |-> FALSE],
     dailyStats  |-> <<>>,
     recentTransactions |-> <<>>,
     expectedDecision |-> "ALLOW",
     expectedFlags |-> <<>>]

CashStructuringTxn == [amount |-> 9000, channel |-> "CASH"]
WireTxn == [amount |-> 9000, channel |-> "WIRE"]

ScenarioChanges ==
    {<<"transaction", "amount", a>> : a \in {1001, 5000, 8000, 9500, 10000, 10001, 30000}}
    \cup {<<"transaction", "channel", "CASH">>, <<"transaction", "isRoundAmount", <<TRUE>>>>}
    \cup {<<"account", "status", st>> : st \in {"FROZEN", "DORMANT", "ACTIVE"}}
    \cup {<<"account", "kycLevel", k>> : k \in {"NONE", "BASIC"}}
    \cup {<<"customer", "sanctionsHits", 2>>, <<"customer", "watchlistHits", 1>>,
          <<"customer", "adverseMediaHits", 1>>, <<"customer", "isPEP", TRUE>>}
    \cup {<<"customer", "riskScore", r>> : r \in {80, 81}}
    \cup {<<"customer", "typicalMonthlyVolume", v>> : v \in {0, 100}}
    \cup {<<"customer", "industry", i>> :
            i \in {"money_service_business", "CRYPTOCURRENCY", "Casino_Gambling"}}
    \cup {<<"imported", "getCountryRisk", r>> : r \in {"SANCTIONED", "VERY_HIGH", "HIGH", "MEDIUM"}}
    \cup {<<"imported", "isRoundAmount", TRUE>>}
    \cup {<<"top", "dailyStats", <<[transactionCount |-> n]>>>> : n \in {10, 15, 21}}
    \cup {<<"top", "recentTransactions", <<t>>>> :
            t \in {<<>>, <<CashStructuringTxn, WireTxn>>,
                   <<CashStructuringTxn, WireTxn, CashStructuringTxn>>}}
    \cup {<<"top", "expectedDecision", d>> : d \in {"DENY", "ALLOW_WITH_FLAGS", "ALLOW"}}
    \cup {<<"top", "expectedFlags", <<h>>>> :
            h \in {<<>>, <<"structuring">>, <<"SANCTIONS", "pep">>, <<"Watchlist Match Found">>,
                   <<"velocity", "structuring">>}}

\* a transaction on a frozen account, expected to be denied
FrozenScenario ==
    [BaseScenario EXCEPT !.id = "txn-002", !.account.status = "FROZEN",
                         !.expectedDecision = "DENY"]

\* a cash transaction of 9,500, expected to be flagged
StructuringScenario ==
    [BaseScenario EXCEPT !.id = "txn-003", !.transaction.amount = 9500,
                         !.transaction.channel = "CASH",
                         !.expectedDecision = "ALLOW_WITH_FLAGS"]

ScenarioInputs ==
    Within(BaseScenario, ScenarioChanges, MaxChanges)
    \cup Within(FrozenScenario, ScenarioChanges, MaxChanges - 1)
    \cup Within(StructuringScenario, ScenarioChanges, MaxChanges - 1)

(***************************************************************************)
(* Loan summary: generateSummary                                           *)
(***************************************************************************)
\* rulesFired is an object keyed by rule id; Object.entries lists its keys in
\* the order they were first set, so it is held as its entries in that order.
\* rulesFired[id] || 0
RulesFiredCount(rulesFired, id) ==
    IF \E k \in 1..Len(rulesFired) : rulesFired[k].ruleId = id
    THEN rulesFired[CHOOSE k \in 1..Len(rulesFired) : rulesFired[k].ruleId = id].count
    ELSE 0

\* rulesFired[rule.ruleId] = (rulesFired[rule.ruleId] || 0) + 1
CountRule(rulesFired, ruleId) ==
    IF \E k \in 1..Len(rulesFired) : rulesFired[k].ruleId = ruleId
    THEN [k \in 1..Len(rulesFired) |->
            IF rulesFired[k].ruleId = ruleId
            THEN [ruleId |-> ruleId, count |-> rulesFired[k].count + 1]
            ELSE rulesFired[k]]
    ELSE Append(rulesFired, [ruleId |-> ruleId, count |-> 1])

\* for (const rule of result.rulesTriggered) { if (rule.matched) { ... } }
RECURSIVE CountRules(_, _)
CountRules(rulesFired, rulesTriggered) ==
    IF rulesTriggered = <<>> THEN rulesFired
    ELSE LET rule == Head(rulesTriggered)
         IN  CountRules(IF rule.matched THEN CountRule(rulesFired, rule.ruleId) ELSE rulesFired,
                        Tail(rulesTriggered))

\* the three counters bumped by a decision
CountDecisionNoElse(counts, decision) ==
    IF decision = "ALLOW"
    THEN [counts EXCEPT !.allowed = @ + 1, !.flagged = @ + 1]
    ELSE IF decision = "DENY" THEN [counts EXCEPT !.denied = @ + 1]
    ELSE [counts EXCEPT !.flagged = @ + 1]
CountDecision(counts, decision) ==
    IF decision = "ALLOW" THEN [counts EXCEPT !.allowed = @ + 1]
    ELSE IF decision = "DENY" THEN [counts EXCEPT !.denied = @ + 1]
    ELSE [counts EXCEPT !.flagged = @ + 1]

\* jurisdictionBreakdown, an object keyed by jurisdiction, as a function on
\* the jurisdictions seen
CountJurisdictionReset(jurisdictionBreakdown, result) ==
    LET seen == [j \in DOMAIN jurisdictionBreakdown \cup {result.jurisdiction} |->
                    IF j = result.jurisdiction
                    THEN [allowed |-> 0, denied |-> 0, flagged |-> 0]
                    ELSE jurisdictionBreakdown[j]]
    IN  [seen EXCEPT ![result.jurisdiction] = CountDecision(@, result.decision)]
CountJurisdiction(jurisdictionBreakdown, result) ==
    LET seen == IF result.jurisdiction \in DOMAIN jurisdictionBreakdown
                THEN jurisdictionBreakdown
                ELSE [j \in DOMAIN jurisdictionBreakdown \cup {result.jurisdiction} |->
                        IF j = result.jurisdiction
                        THEN [allowed |-> 0, denied |-> 0, flagged |-> 0]
                        ELSE jurisdictionBreakdown[j]]
    IN  [seen EXCEPT ![result.jurisdiction] = CountDecision(@, result.decision)]

\* the bucket of the risk histogram a score is counted in
RiskBucketExclusive(riskScore) ==
    IF riskScore < 25 THEN "LOW (0-25)"
    ELSE IF riskScore < 50 THEN "MEDIUM (26-50)"
    ELSE IF riskScore < 75 THEN "HIGH (51-75)"
    ELSE "CRITICAL (76-100)"
RiskBucket(riskScore) ==
    IF riskScore <= 25 THEN "LOW (0-25)"
    ELSE IF riskScore <= 50 THEN "MEDIUM (26-50)"
    ELSE IF riskScore <= 75 THEN "HIGH (51-75)"
    ELSE "CRITICAL (76-100)"

RiskBuckets == {"LOW (0-25)", "MEDIUM (26-50)", "HIGH (51-75)", "CRITICAL (76-100)"}

\* the accumulators before the loop over results
NewAccumulators ==
    [counts                |-> [allowed |-> 0, denied |-> 0, flagged |-> 0],
     rulesFired            |-> <<>>,
     jurisdictionBreakdown |-> <<>>,
     riskDistribution      |-> [b \in RiskBuckets |-> 0]]

\* the body of for (const result of results)
Accumulate(acc, result) ==
    [counts                |-> CountDecision(acc.counts, result.decision),
     rulesFired            |-> CountRules(acc.rulesFired, result.rulesTriggered),
     jurisdictionBreakdown |-> CountJurisdiction(acc.jurisdictionBreakdown, result),
     riskDistribution      |-> [acc.riskDistribution EXCEPT ![RiskBucket(result.riskScore)] = @ + 1]]

RECURSIVE AccumulateAll(_, _)
AccumulateAll(acc, rs) ==
    IF rs = <<>> THEN acc ELSE AccumulateAll(Accumulate(acc, Head(rs)), Tail(rs))

\* ruleCategories, in the order of its keys
ruleCategories ==
    <<[category |-> "APR Caps",
       ruleIds  |-> <<"loans-ca-apr-cap", "loans-ny-apr-cap", "loans-tx-apr-cap",
                      "loans-ct-apr-cap", "loans-ar-apr-cap">>],
      [category |-> "Credit Score",
       ruleIds  |-> <<"loans-deep-subprime-denial", "loans-subprime-flag",
                      "loans-near-prime-flag">>],
      [category |-> "DTI",
       ruleIds  |-> <<"loans-high-dti-denial", "loans-qm-dti-flag">>],
      [category |-> "Delinquency",
       ruleIds  |-> <<"loans-repeat-delinquent-denial", "loans-recent-delinquency-flag",
                      "loans-multiple-delinquencies">>],
      [category |-> "Shadow Risk",
       ruleIds  |-> <<"loans-shadow-apr-risk", "loans-shadow-dti-risk",
                      "loans-shadow-credit-risk">>],
      [category |-> "High Risk",
       ruleIds  |-> <<"loans-high-risk-combo", "loans-predatory-pattern">>],
      [category |-> "First-Time",
       ruleIds  |-> <<"loans-first-time-low-credit", "loans-first-time-high-amount">>],
      [category |-> "Large Loans",
       ruleIds  |-> <<"loans-large-loan-review", "loans-jumbo-loan-review">>],
      [category |-> "Special",
       ruleIds  |-> <<"loans-mla-apr-cap", "loans-unemployed-denial", "loans-payday-scrutiny",
                      "loans-payday-subprime-denial", "loans-student-borrower-flag">>]>>

\* ruleIds.reduce((sum, id) => sum + (rulesFired[id] || 0), 0)
RECURSIVE SumRulesFired(_, _)
SumRulesFired(rulesFired, ruleIds) ==
    IF ruleIds = <<>> THEN 0
    ELSE RulesFiredCount(rulesFired, Head(ruleIds)) + SumRulesFired(rulesFired, Tail(ruleIds))

Categories == {ruleCategories[k].category : k \in 1..Len(ruleCategories)}

rulesByCategory(rulesFired) ==
    [c \in Categories |->
        SumRulesFired(rulesFired,
            ruleCategories[CHOOSE k \in 1..Len(ruleCategories) :
                               ruleCategories[k].category = c].ruleIds)]

\* Array.prototype.sort with the comparator b - a: by count, highest first;
\* the sort is stable, entries of equal count keep the order they had
SortByCountDescUnsorted(entries) == entries
RECURSIVE SortByCountDescUnstable(_)
SortByCountDescUnstable(entries) ==
    IF entries = <<>> THEN <<>>
    ELSE LET sorted == SortByCountDescUnstable(SubSeq(entries, 1, Len(entries) - 1))
             last   == entries[Len(entries)]
             before == Cardinality({i \in 1..Len(sorted) : sorted[i].count > last.count})
         IN  SubSeq(sorted, 1, before) \o <<last>> \o SubSeq(sorted, before + 1, Len(sorted))
RECURSIVE SortByCountDesc(_)
SortByCountDesc(entries) ==
    IF entries = <<>> THEN <<>>
    ELSE LET sorted == SortByCountDesc(SubSeq(entries, 1, Len(entries) - 1))
             last   == entries[Len(entries)]
             before == Cardinality({i \in 1..Len(sorted) : sorted[i].count >= last.count})
         IN  SubSeq(sorted, 1, before) \o <<last>> \o SubSeq(sorted, before + 1, Len(sorted))

\* the length of the top list: slice(0, 10)
TopLength == 10

\* Array.prototype.slice(0, n)
Slice(s, n) == SubSeq(s, 1, IF Len(s) < n THEN Len(s) ELSE n)

\* Object.entries(rulesFired).sort(...).slice(0, 10).map(...); an entry's
\* ruleName is the name recorded with the ruleId, the same at every match
topTriggeredRules(rulesFired) == Slice(SortByCountDesc(rulesFired), TopLength)

\* The summary without its timestamp, its processing times and the names of
\* the files, which no rule result enters.
generateSummary(rs) ==
    LET acc == AccumulateAll(NewAccumulators, rs)
    IN  [totalLoans            |-> Len(rs),
         results               |-> acc.counts,
         rulesFired            |-> acc.rulesFired,
         rulesByCategory       |-> rulesByCategory(acc.rulesFired),
         jurisdictionBreakdown |-> acc.jurisdictionBreakdown,
         riskDistribution      |-> acc.riskDistribution,
         topTriggeredRules     |-> topTriggeredRules(acc.rulesFired),
         hiddenRisksDetected   |-> acc.counts.flagged + acc.counts.denied,
         detailedResults       |-> rs]

(***************************************************************************)
(* AML report of one dataset file                                          *)
(***************************************************************************)
\* results.flatMap(r => r.matchedRules)
RECURSIVE FlatMatchedRules(_)
FlatMatchedRules(rs) ==
    IF rs = <<>> THEN <<>> ELSE Head(rs).matchedRules \o FlatMatchedRules(Tail(rs))

SimulationReport(file, rs) ==
    [dataset        |-> file,
     totalScenarios |-> Len(rs),
     passed         |-> Len(SelectSeq(rs, LAMBDA r : r.passed)),
     failed         |-> Len(SelectSeq(rs, LAMBDA r : ~r.passed)),
     summary        |-> [denials |-> Len(SelectSeq(rs, LAMBDA r : r.decision = "DENY")),
                         flags   |-> Len(SelectSeq(rs, LAMBDA r : r.decision = "ALLOW_WITH_FLAGS")),
                         allows  |-> Len(SelectSeq(rs, LAMBDA r : r.decision = "ALLOW")),
                         uniqueRulesTriggered |-> Dedupe(FlatMatchedRules(rs))]]

(***************************************************************************)
(* The batch loops                                                         *)
(***************************************************************************)
\* A record whose borrower (loan) or customer (AML) is missing: the evaluator
\* reads a property of undefined at its first unguarded rule (payload.borrower
\* .creditScore, customer.sanctionsHits) and throws a TypeError.
LoanThrows(loan) == "borrower" \notin DOMAIN loan
AmlThrows(scenario) == "customer" \notin DOMAIN scenario

\* the state main() / runSimulations() starts its loops in, first file loaded
Start(files) ==
    /\ datasetFiles = files
    /\ fileIndex = 1
    /\ dataset = files[1]
    /\ cursor = 1
    /\ allResults = <<>>
    /\ results = <<>>
    /\ errors = <<>>
    /\ summary = <<>>
    /\ allReports = <<>>

DefaultThresholds ==
    [CTR_THRESHOLD |-> 10000, PEP_ENHANCED_THRESHOLD |-> 5000,
     HIGH_RISK_COUNTRY_THRESHOLD |-> 3000, HIGH_VELOCITY_COUNT_24H |-> 10]

\* One run of one script over one dataset file of one record.
Init ==
    /\ script \in {"loan", "aml"}
    /\ IF script = "loan"
       THEN /\ \E l \in LoanInputs : Start(<< <<l>> >>)
            /\ AML_THRESHOLDS = DefaultThresholds
       ELSE /\ \E sc \in ScenarioInputs : Start(<< <<sc>> >>)
            /\ AML_THRESHOLDS \in ThresholdConfigs

\* for (const loan of dataset.loans) { allResults.push(evaluateLoanDirectly(loan)) }
LoanStep ==
    /\ script = "loan"
    /\ cursor <= Len(dataset)
    /\ ~LoanThrows(dataset[cursor])
    /\ allResults' = Append(allResults, evaluateLoanDirectly(dataset[cursor]))
    /\ cursor' = cursor + 1
    /\ UNCHANGED <<script, datasetFiles, fileIndex, dataset, results, errors, summary,
                   allReports, AML_THRESHOLDS>>

\* evaluateLoanDirectly throws inside the try block, which encloses the whole
\* loop over the file's loans: the catch logs, and the loop over the loans is left
LoanCatch ==
    /\ script = "loan"
    /\ cursor <= Len(dataset)
    /\ LoanThrows(dataset[cursor])
    /\ errors' = Append(errors, [file |-> fileIndex, record |-> cursor])
    /\ cursor' = Len(dataset) + 1
    /\ UNCHANGED <<script, datasetFiles, fileIndex, dataset, allResults, results, summary,
                   allReports, AML_THRESHOLDS>>

\* for (const datasetFile of datasetFiles): the next file is loaded
LoanNextFile ==
    /\ script = "loan"
    /\ cursor > Len(dataset)
    /\ fileIndex < Len(datasetFiles)
    /\ fileIndex' = fileIndex + 1
    /\ dataset' = datasetFiles[fileIndex + 1]
    /\ cursor' = 1
    /\ UNCHANGED <<script, datasetFiles, allResults, results, errors, summary, allReports,
                   AML_THRESHOLDS>>

\* const summary = generateSummary(allResults, datasetsProcessed), after the loops
LoanSummary ==
    /\ script = "loan"
    /\ cursor > Len(dataset)
    /\ fileIndex = Len(datasetFiles)
    /\ summary = <<>>
    /\ summary' = <<generateSummary(allResults)>>
    /\ UNCHANGED <<script, datasetFiles, fileIndex, dataset, cursor, allResults, results,
                   errors, allReports, AML_THRESHOLDS>>

\* for (const scenario of data.transactions) { results.push(evaluateTransaction(scenario)) }
AmlStep ==
    /\ script = "aml"
    /\ errors = <<>>
    /\ cursor <= Len(dataset)
    /\ ~AmlThrows(dataset[cursor])
    /\ results' = Append(results, evaluateTransaction(dataset[cursor]))
    /\ cursor' = cursor + 1
    /\ UNCHANGED <<script, datasetFiles, fileIndex, dataset, allResults, errors, summary,
                   allReports, AML_THRESHOLDS>>

\* evaluateTransaction throws: no try block encloses the loops, the promise of
\* runSimulations() rejects and its .catch(console.error) logs; the run is over
AmlThrow ==
    /\ script = "aml"
    /\ errors = <<>>
    /\ cursor <= Len(dataset)
    /\ AmlThrows(dataset[cursor])
    /\ errors' = Append(errors, [file |-> fileIndex, record |-> cursor])
    /\ UNCHANGED <<script, datasetFiles, fileIndex, dataset, cursor, allResults, results,
                   summary, allReports, AML_THRESHOLDS>>

\* allReports.push(report), after the loop over the file's scenarios
AmlReport ==
    /\ script = "aml"
    /\ errors = <<>>
    /\ cursor > Len(dataset)
    /\ Len(allReports) < fileIndex
    /\ allReports' = Append(allReports, SimulationReport(fileIndex, results))
    /\ UNCHANGED <<script, datasetFiles, fileIndex, dataset, cursor, allResults, results,
                   errors, summary, AML_THRESHOLDS>>

\* for (const datasetFile of datasets): the next file is parsed, results is a new array
AmlNextFile ==
    /\ script = "aml"
    /\ errors = <<>>
    /\ Len(allReports) = fileIndex
    /\ fileIndex < Len(datasetFiles)
    /\ fileIndex' = fileIndex + 1
    /\ dataset' = datasetFiles[fileIndex + 1]
    /\ cursor' = 1
    /\ results' = <<>>
    /\ UNCHANGED <<script, datasetFiles, allResults, errors, summary, allReports,
                   AML_THRESHOLDS>>

\* the steps of a run over one file of well-formed records
Next == LoanStep \/ AmlStep \/ LoanSummary \/ AmlReport

Spec == Init /\ [][Next]_vars

(***************************************************************************)
(* Runs over a dataset of several records                                  *)
(***************************************************************************)
Change2(rec, c, d) == Change(Change(rec, c), d)

\* loans that share scoring factors across different decisions, and differ in them
RunLoans ==
    {BaseLoan,
     Change(BaseLoan, <<"borrower", "delinquencyHistory", "BANKRUPTCY">>),
     Change(BaseLoan, <<"top", "jurisdiction", "US-TX">>),
     Change(BaseLoan, <<"loan", "productType", "PAYDAY">>),
     Change(BaseLoan, <<"borrower", "creditScore", 590>>),
     Change2(BaseLoan, <<"borrower", "creditScore", 590>>,
                       <<"borrower", "employmentStatus", "UNEMPLOYED">>),
     Change(BaseLoan, <<"loan", "apr", 45>>),
     Change2(BaseLoan, <<"loan", "apr", 45>>, <<"top", "jurisdiction", "US-FL">>),
     Change(BaseLoan, <<"borrower", "delinquenciesLast24Months", 1000>>),
     Change2(BaseLoan, <<"borrower", "debtToIncomeRatio", 51>>,
                       <<"borrower", "employmentStatus", "STUDENT">>),
     Change2(BaseLoan, <<"borrower", "creditScore", 499>>,
                       <<"borrower", "debtToIncomeRatio", 61>>),
     Change2(BaseLoan, <<"borrower", "isFirstTimeBorrower", TRUE>>,
                       <<"loan", "principal", 100001>>)}

RunScenarios ==
    {BaseScenario,
     Change(BaseScenario, <<"account", "status", "FROZEN">>),
     Change2(BaseScenario, <<"customer", "sanctionsHits", 2>>,
                           <<"imported", "getCountryRisk", "SANCTIONED">>),
     Change(BaseScenario, <<"customer", "watchlistHits", 1>>),
     Change2(BaseScenario, <<"transaction", "channel", "CASH">>,
                           <<"transaction", "amount", 9500>>),
     Change2(BaseScenario, <<"customer", "isPEP", TRUE>>, <<"transaction", "amount", 10000>>),
     Change2(BaseScenario, <<"imported", "getCountryRisk", "HIGH">>,
                           <<"transaction", "amount", 5000>>),
     Change(BaseScenario, <<"imported", "getCountryRisk", "MEDIUM">>),
     Change2(BaseScenario, <<"account", "status", "DORMANT">>,
                           <<"top", "expectedDecision", "ALLOW_WITH_FLAGS">>),
     Change(BaseScenario, <<"top", "dailyStats", <<[transactionCount |-> 21]>>>>)}

RunLength == 3

\* One run of one script over one dataset file of RunLength records.
InitRun ==
    /\ script \in {"loan", "aml"}
    /\ IF script = "loan"
       THEN /\ \E d \in [1..RunLength -> RunLoans] : Start(<<d>>)
            /\ AML_THRESHOLDS = DefaultThresholds
       ELSE /\ \E d \in [1..RunLength -> RunScenarios] : Start(<<d>>)
            /\ AML_THRESHOLDS \in ThresholdConfigs

SpecRun == InitRun /\ [][Next]_vars

(***************************************************************************)
(* Runs whose summary counts several rules, some of them equally often     *)
(***************************************************************************)
\* a loan that fourteen flag rules match
ManyFlagsLoan ==
    [id           |-> "loan-003",
     jurisdiction |-> "US-FL",
     loan         |-> [apr |-> 33, principal |-> 800000, amount |-> <<>>, termMonths |-> 60,
                       productType |-> "PAYDAY", isSecured |-> FALSE],
     borrower     |-> [creditScore |-> 590, debtToIncomeRatio |-> 46,
                       employmentStatus |-> "STUDENT", riskBand |-> "PRIME",
                       isFirstTimeBorrower |-> TRUE, delinquencyHistory |-> "PAST_90",
                       delinquenciesLast24Months |-> 3, hasCosigner |-> <<>>],
     flags        |-> <<>>]

\* a loan of risk score 25 and a loan of risk score 75, the upper ends of
\* the first and the third bucket of the histogram
Score25Loan ==
    Change2(BaseLoan, <<"borrower", "creditScore", 740>>,
                      <<"borrower", "debtToIncomeRatio", 29>>)

Score75Loan ==
    Change2(BaseLoan, <<"borrower", "creditScore", 579>>,
                      <<"borrower", "delinquenciesLast24Months", 1>>)

SummaryLoans ==
    {BaseLoan,
     ManyFlagsLoan,
     Score25Loan,
     Score75Loan,
     Change(BaseLoan, <<"loan", "productType", "PAYDAY">>),
     Change(BaseLoan, <<"borrower", "delinquencyHistory", "BANKRUPTCY">>),
     Change2(BaseLoan, <<"borrower", "employmentStatus", "STUDENT">>,
                       <<"top", "jurisdiction", "US-TX">>)}

SummaryScenarios ==
    {BaseScenario,
     Change(BaseScenario, <<"account", "status", "FROZEN">>),
     Change(BaseScenario, <<"customer", "watchlistHits", 1>>),
     Change2(BaseScenario, <<"account", "status", "DORMANT">>,
                           <<"top", "expectedDecision", "ALLOW_WITH_FLAGS">>)}

\* One run of one script over one dataset file of RunLength records.
InitSummary ==
    /\ script \in {"loan", "aml"}
    /\ IF script = "loan"
       THEN \E d \in [1..RunLength -> SummaryLoans] : Start(<<d>>)
       ELSE \E d \in [1..RunLength -> SummaryScenarios] : Start(<<d>>)
    /\ AML_THRESHOLDS = DefaultThresholds

SpecSummary == InitSummary /\ [][Next]_vars

(***************************************************************************)
(* Runs over several dataset files, some with a record that cannot be      *)
(* evaluated                                                               *)
(***************************************************************************)
\* a loan record without its borrower, a scenario without its customer
MalformedLoan ==
    [id |-> "loan-bad", jurisdiction |-> "US-CA", loan |-> BaseLoan.loan, flags |-> <<>>]

MalformedScenario ==
    [id |-> "txn-bad", transaction |-> BaseScenario.transaction,
     account |-> BaseScenario.account, imported |-> BaseScenario.imported,
     dailyStats |-> <<>>, recentTransactions |-> <<>>,
     expectedDecision |-> "ALLOW", expectedFlags |-> <<>>]

BatchLoans ==
    {BaseLoan, Change(BaseLoan, <<"loan", "productType", "PAYDAY">>), MalformedLoan}

BatchScenarios ==
    {BaseScenario, Change(BaseScenario, <<"account", "status", "FROZEN">>), MalformedScenario}

BatchFiles == 2
BatchLength == 2

\* One run of one script over BatchFiles dataset files of BatchLength records.
InitBatch ==
    /\ script \in {"loan", "aml"}
    /\ IF script = "loan"
       THEN \E files \in [1..BatchFiles -> [1..BatchLength -> BatchLoans]] : Start(files)
       ELSE \E files \in [1..BatchFiles -> [1..BatchLength -> BatchScenarios]] : Start(files)
    /\ AML_THRESHOLDS = DefaultThresholds

NextBatch ==
    \/ LoanStep \/ LoanCatch \/ LoanNextFile \/ LoanSummary
    \/ AmlStep \/ AmlThrow \/ AmlReport \/ AmlNextFile

SpecBatch == InitBatch /\ [][NextBatch]_vars

(***************************************************************************)
(* Vocabulary of the properties                                            *)
(***************************************************************************)
\* the evaluations done so far, as positions of the dataset
LoanDone == IF script = "loan" THEN 1..Len(allResults) ELSE {}
AmlDone  == IF script = "aml" THEN 1..Len(results) ELSE {}

\* the rules of a block whose condition holds for an input, in block order
LoanMatching(order, loan) == SelectSeq(order, LAMBDA rule : LoanRuleCondition(rule, loan))
AmlMatching(order, scenario) == SelectSeq(order, LAMBDA rule : AmlRuleCondition(rule, scenario))

\* the rule ids of a loan result's trail
LoanTrail(result) == [k \in 1..Len(result.rulesTriggered) |-> result.rulesTriggered[k].ruleId]

LoanFlagIds == Range(LoanFlagOrder)
LoanFlagCodes == {LoanRuleCode(rule, BaseLoan) : rule \in LoanFlagIds}
AmlFlagIds == Range(AmlFlagOrder)
AmlFlagTexts == {AmlRuleFlag(rule) : rule \in AmlFlagIds}

\* position of a recorded rule id in the order the evaluator checks the rules
AprCapRuleIds == {AprCapRuleId(j) : j \in DOMAIN aprCaps}
LoanRulePosition(ruleId) ==
    LET order == LoanDenyOrder \o LoanFlagOrder
        rule  == IF ruleId \in AprCapRuleIds THEN "loans-apr-cap" ELSE ruleId
    IN  CHOOSE k \in 1..Len(order) : order[k] = rule
AmlRulePosition(ruleId) ==
    LET order == AmlDenyOrder \o AmlFlagOrder
    IN  CHOOSE k \in 1..Len(order) : order[k] = ruleId

\* the decision the three-way rule of the property gives
DecisionFromMatches(deny, flag) ==
    IF deny # <<>> THEN "DENY" ELSE IF flag # <<>> THEN "ALLOW_WITH_FLAGS" ELSE "ALLOW"

\* the four factors the risk score is computed from
ScoringFactors(loan) ==
    <<loan.borrower.creditScore, loan.borrower.debtToIncomeRatio,
      loan.borrower.delinquenciesLast24Months, loan.loan.apr>>

NoDuplicates(s) == \A a, b \in 1..Len(s) : a # b => s[a] # s[b]

(***************************************************************************)
(* C1.  If at least one deny-tier rule matches an input, the matched-rule  *)
(* trail of the result holds exactly one entry, the first matching deny    *)
(* rule in the fixed rule order, even when several deny rules match.       *)
(* The evaluators run every deny rule and record each one that matches,    *)
(* so this fails on an input that two deny rules match.                    *)
(***************************************************************************)
C1_TrailIsFirstDenyOnly ==
    /\ \A i \in LoanDone :
          LET matching == LoanMatching(LoanDenyOrder, dataset[i]) IN
          matching # <<>> =>
              LoanTrail(allResults[i]) = <<LoanRuleId(matching[1], dataset[i])>>
    /\ \A i \in AmlDone :
          LET matching == AmlMatching(AmlDenyOrder, dataset[i]) IN
          matching # <<>> => results[i].matchedRules = <<matching[1]>>

(***************************************************************************)
(* C2.  Whenever the returned decision is DENY, the returned flags list    *)
(* is empty.  The loan evaluator pushes each matched deny rule's code to   *)
(* flags, so its DENY results carry flags.                                 *)
(***************************************************************************)
C2_DenyHasNoFlags ==
    /\ \A i \in LoanDone : allResults[i].decision = "DENY" => allResults[i].flags = <<>>
    /\ \A i \in AmlDone : results[i].decision = "DENY" => results[i].flags = <<>>

(***************************************************************************)
(* C3.  When any deny-tier rule matches, no flag-tier rule is evaluated:   *)
(* the trail holds no flag-tier rule id and flags holds no flag-tier code, *)
(* even if flag-tier conditions hold for the same input.                   *)
(***************************************************************************)
C3_DenySkipsFlagTier ==
    /\ \A i \in LoanDone :
          LoanMatching(LoanDenyOrder, dataset[i]) # <<>> =>
              /\ Range(LoanTrail(allResults[i])) \cap LoanFlagIds = {}
              /\ Range(allResults[i].flags) \cap LoanFlagCodes = {}
    /\ \A i \in AmlDone :
          AmlMatching(AmlDenyOrder, dataset[i]) # <<>> =>
              /\ Range(results[i].matchedRules) \cap AmlFlagIds = {}
              /\ Range(results[i].flags) \cap AmlFlagTexts = {}

\* both evaluators have returned for an input that a deny rule and a flag rule match
C3_Witness ==
    \/ \E i \in LoanDone :
          /\ LoanMatching(LoanDenyOrder, dataset[i]) # <<>>
          /\ LoanMatching(LoanFlagOrder, dataset[i]) # <<>>
          /\ allResults[i].decision = "DENY"
    \/ \E i \in AmlDone :
          /\ AmlMatching(AmlDenyOrder, dataset[i]) # <<>>
          /\ AmlMatching(AmlFlagOrder, dataset[i]) # <<>>
          /\ results[i].decision = "DENY"

(***************************************************************************)
(* C4.  Severity monotonicity: a result with non-empty flags never has     *)
(* decision ALLOW, and a result for which a deny-tier rule matched always  *)
(* has decision DENY.                                                      *)
(***************************************************************************)
C4_SeverityMonotone ==
    /\ \A i \in LoanDone :
          /\ allResults[i].flags # <<>> => allResults[i].decision # "ALLOW"
          /\ LoanMatching(LoanDenyOrder, dataset[i]) # <<>> => allResults[i].decision = "DENY"
    /\ \A i \in AmlDone :
          /\ results[i].flags # <<>> => results[i].decision # "ALLOW"
          /\ AmlMatching(AmlDenyOrder, dataset[i]) # <<>> => results[i].decision = "DENY"

\* an AML result with several flags, decided ALLOW_WITH_FLAGS
C4_Witness ==
    \E i \in AmlDone : Len(results[i].flags) >= 2 /\ results[i].decision = "ALLOW_WITH_FLAGS"

(***************************************************************************)
(* C5.  The decision is exactly determined by the matches: DENY iff some   *)
(* deny-tier rule matches; otherwise ALLOW_WITH_FLAGS iff some flag-tier   *)
(* rule matches; otherwise ALLOW with an empty trail and empty flags.      *)
(***************************************************************************)
C5_DecisionDetermined ==
    /\ \A i \in LoanDone :
          LET r == allResults[i] IN
          /\ r.decision = DecisionFromMatches(LoanMatching(LoanDenyOrder, dataset[i]),
                                              LoanMatching(LoanFlagOrder, dataset[i]))
          /\ r.decision = "ALLOW" => r.rulesTriggered = <<>> /\ r.flags = <<>>
    /\ \A i \in AmlDone :
          LET r == results[i] IN
          /\ r.decision = DecisionFromMatches(AmlMatching(AmlDenyOrder, dataset[i]),
                                              AmlMatching(AmlFlagOrder, dataset[i]))
          /\ r.decision = "ALLOW" => r.matchedRules = <<>> /\ r.flags = <<>>

\* an AML input that several deny rules match has been decided
C5_Witness ==
    \E i \in AmlDone :
        Len(AmlMatching(AmlDenyOrder, dataset[i])) >= 2 /\ results[i].decision = "DENY"

(***************************************************************************)
(* C6.  flags holds no string twice, also in the AML evaluator, which      *)
(* pushes 'FATF Grey List Country' from two rules and does not dedupe.     *)
(***************************************************************************)
C6_FlagsHaveNoDuplicates ==
    /\ \A i \in LoanDone : NoDuplicates(allResults[i].flags)
    /\ \A i \in AmlDone : NoDuplicates(results[i].flags)

\* the offshore rule has pushed 'FATF Grey List Country' next to another flag
C6_Witness ==
    \E i \in AmlDone :
        /\ Includes(results[i].matchedRules, "aml-offshore-center")
        /\ Includes(results[i].flags, "FATF Grey List Country")
        /\ Len(results[i].flags) >= 2

(***************************************************************************)
(* C7.  For every loan, however extreme its factors, 0 <= riskScore <= 100,*)
(* and the score is the clamp of the whole sum of base and deltas: 100     *)
(* when the sum is above 100, 0 when it is below 0, the sum otherwise.     *)
(***************************************************************************)
C7_RiskScoreClamped ==
    \A i \in LoanDone :
        LET score == allResults[i].riskScore
            sum   == RawRiskScore(Payload(dataset[i]))
        IN  /\ 0 <= score /\ score <= 100
            /\ sum > 100 => score = 100
            /\ sum < 0 => score = 0
            /\ (0 <= sum /\ sum <= 100) => score = sum

\* a loan with 1000 delinquencies has been scored
C7_Witness ==
    \E i \in LoanDone :
        /\ dataset[i].borrower.delinquenciesLast24Months = 1000
        /\ RawRiskScore(Payload(dataset[i])) > 100
        /\ allResults[i].riskScore = 100

(***************************************************************************)
(* C8.  The matched-rule trail is a subsequence of the fixed rule order:   *)
(* any two rules of a trail stand in the order the evaluator checks them.  *)
(***************************************************************************)
C8_TrailInRuleOrder ==
    /\ \A i \in LoanDone :
          LET trail == LoanTrail(allResults[i]) IN
          \A a, b \in 1..Len(trail) :
              a < b => LoanRulePosition(trail[a]) < LoanRulePosition(trail[b])
    /\ \A i \in AmlDone :
          LET trail == results[i].matchedRules IN
          \A a, b \in 1..Len(trail) :
              a < b => AmlRulePosition(trail[a]) < AmlRulePosition(trail[b])

\* a loan trail of three rules and more
C8_Witness == \E i \in LoanDone : Len(allResults[i].rulesTriggered) >= 3

C10_ScoreIndependentOfDecision ==
    \A i, j \in LoanDone :
        ScoringFactors(dataset[i]) = ScoringFactors(dataset[j]) =>
            allResults[i].riskScore = allResults[j].riskScore

\* a denied and an allowed loan with the same scoring factors have been scored
C10_Witness ==
    \E i, j \in LoanDone :
        /\ ScoringFactors(dataset[i]) = ScoringFactors(dataset[j])
        /\ allResults[i].decision = "DENY"
        /\ allResults[j].decision = "ALLOW"
        /\ dataset[i].jurisdiction # dataset[j].jurisdiction

(***************************************************************************)
(* C11.  A loan with APR 0.45 in US-CA, whose cap is 0.36, is decided DENY *)
(* and carries CA_APR_EXCEEDED; for every jurisdiction of the cap table,   *)
(* an APR strictly above the cap gives DENY with that jurisdiction's code, *)
(* and an APR equal to the cap does not trigger the cap rule.              *)
(***************************************************************************)
C11_AprCapStrict ==
    \A i \in LoanDone :
        LET loan == dataset[i]
            r    == allResults[i]
        IN  /\ (loan.jurisdiction = "US-CA" /\ loan.loan.apr = 45) =>
                    r.decision = "DENY" /\ Includes(r.flags, "CA_APR_EXCEEDED")
            /\ loan.jurisdiction \in DOMAIN aprCaps =>
                   LET cap == aprCaps[loan.jurisdiction] IN
                   /\ loan.loan.apr > cap.cap =>
                         /\ r.decision = "DENY"
                         /\ Includes(r.flags, cap.code)
                         /\ \E k \in 1..Len(r.rulesTriggered) :
                               /\ r.rulesTriggered[k].ruleId = AprCapRuleId(loan.jurisdiction)
                               /\ r.rulesTriggered[k].code = cap.code
                               /\ r.rulesTriggered[k].decision = "DENY"
                   /\ loan.loan.apr = cap.cap =>
                         /\ ~Includes(LoanTrail(r), AprCapRuleId(loan.jurisdiction))
                         /\ ~Includes(r.flags, cap.code)

\* a Texas loan at exactly the Texas cap has been evaluated and allowed
C11_Witness ==
    \E i \in LoanDone :
        /\ dataset[i].jurisdiction = "US-TX"
        /\ dataset[i].loan.apr = 18
        /\ allResults[i].decision = "ALLOW"

(***************************************************************************)
(* C12.  An AML transaction on a FROZEN account whose other fields are     *)
(* benign (no sanctions hits, destination country neither sanctioned nor   *)
(* very high risk, KYC present) is decided DENY with empty flags and a     *)
(* matchedRules list of exactly one entry, 'aml-frozen-account-block'.     *)
(***************************************************************************)
C12_FrozenAccountDenied ==
    \A i \in AmlDone :
        LET sc == dataset[i] IN
        (/\ sc.account.status = "FROZEN"
         /\ sc.customer.sanctionsHits = 0
         /\ sc.imported.getCountryRisk \notin {"SANCTIONED", "VERY_HIGH"}
         /\ sc.account.kycLevel # "NONE") =>
            /\ results[i].decision = "DENY"
            /\ results[i].flags = <<>>
            /\ results[i].matchedRules = <<"aml-frozen-account-block">>

\* a frozen-account transaction for which a flag condition holds too has been denied
C12_Witness ==
    \E i \in AmlDone :
        /\ dataset[i].account.status = "FROZEN"
        /\ dataset[i].customer.watchlistHits > 0
        /\ results[i].matchedRules = <<"aml-frozen-account-block">>

(***************************************************************************)
(* C13.  An AML cash transaction of amount 9,500 for a customer with no    *)
(* sanctions and no watchlist hits is decided ALLOW_WITH_FLAGS and its     *)
(* flags include 'Structuring Amount Detection' (rule                      *)
(* 'aml-structuring-amount').  As stated this fails when a deny rule the   *)
(* statement does not exclude matches: a frozen account, an account        *)
(* without KYC, a sanctioned or very-high-risk destination.                *)
(***************************************************************************)
C13_StructuringFlagged ==
    \A i \in AmlDone :
        LET sc == dataset[i] IN
        (/\ sc.transaction.channel = "CASH"
         /\ sc.transaction.amount = 9500
         /\ sc.customer.sanctionsHits = 0
         /\ sc.customer.watchlistHits = 0) =>
            /\ results[i].decision = "ALLOW_WITH_FLAGS"
            /\ Includes(results[i].flags, "Structuring Amount Detection")
            /\ Includes(results[i].matchedRules, "aml-structuring-amount")

(***************************************************************************)
(* C13, amended.  An AML cash transaction of amount 9,500 for a customer   *)
(* with no sanctions and no watchlist hits, on an account that is not      *)
(* frozen and whose KYC level is not NONE, to a destination country that   *)
(* is neither sanctioned nor very high risk, is decided ALLOW_WITH_FLAGS   *)
(* and its flags include 'Structuring Amount Detection'.                   *)
(***************************************************************************)
C13_StructuringFlaggedUnlessDenied ==
    \A i \in AmlDone :
        LET sc == dataset[i] IN
        (/\ sc.transaction.channel = "CASH"
         /\ sc.transaction.amount = 9500
         /\ sc.customer.sanctionsHits = 0
         /\ sc.customer.watchlistHits = 0
         /\ sc.account.status # "FROZEN"
         /\ sc.account.kycLevel # "NONE"
         /\ sc.imported.getCountryRisk \notin {"SANCTIONED", "VERY_HIGH"}) =>
            /\ results[i].decision = "ALLOW_WITH_FLAGS"
            /\ Includes(results[i].flags, "Structuring Amount Detection")
            /\ Includes(results[i].matchedRules, "aml-structuring-amount")

\* a cash transaction of 9,500 has been flagged for its amount alone
C13_Witness ==
    \E i \in AmlDone :
        /\ dataset[i].transaction.channel = "CASH"
        /\ dataset[i].transaction.amount = 9500
        /\ dataset[i].customer.watchlistHits = 0
        /\ results[i].decision = "ALLOW_WITH_FLAGS"
        /\ results[i].flags = <<"Structuring Amount Detection">>

(***************************************************************************)
(* C14.  A loan with APR 0.30, term 60 months and borrower credit score    *)
(* 600, with no deny condition holding, is decided ALLOW_WITH_FLAGS and    *)
(* its flags include HIGH_RISK_COMBINATION.                                *)
(***************************************************************************)
C14_HighRiskScenarioFlagged ==
    \A i \in LoanDone :
        LET loan == dataset[i] IN
        (/\ loan.loan.apr = 30
         /\ loan.loan.termMonths = 60
         /\ loan.borrower.creditScore = 600
         /\ LoanMatching(LoanDenyOrder, loan) = <<>>) =>
            /\ allResults[i].decision = "ALLOW_WITH_FLAGS"
            /\ Includes(allResults[i].flags, "HIGH_RISK_COMBINATION")

\* such a loan, in a jurisdiction without a cap, has been flagged
C14_Witness ==
    \E i \in LoanDone :
        /\ dataset[i].loan.apr = 30
        /\ dataset[i].loan.termMonths = 60
        /\ dataset[i].borrower.creditScore = 600
        /\ dataset[i].jurisdiction = "US-FL"
        /\ Includes(allResults[i].flags, "HIGH_RISK_COMBINATION")

(***************************************************************************)
(* C15.  High Risk Loan Detection as the README documents it: every loan   *)
(* that is not denied and has apr > 0.25 and termMonths > 48 is decided    *)
(* ALLOW_WITH_FLAGS with flag HIGH_RISK_COMBINATION, whatever the          *)
(* borrower's credit score.  The evaluator's rule also requires a credit   *)
(* score below 620.                                                        *)
(***************************************************************************)
C15_HighRiskAsDocumented ==
    \A i \in LoanDone :
        LET loan == dataset[i] IN
        (/\ allResults[i].decision # "DENY"
         /\ loan.loan.apr > 25
         /\ loan.loan.termMonths > 48) =>
            /\ allResults[i].decision = "ALLOW_WITH_FLAGS"
            /\ Includes(allResults[i].flags, "HIGH_RISK_COMBINATION")

\* the expected-flag hints of a scenario, none when expectedFlags is absent
Hints(scenario) == IF scenario.expectedFlags = <<>> THEN <<>> ELSE scenario.expectedFlags[1]

\* the two criteria of the comparison, on a result
PassCriteria(scenario, result) ==
    /\ result.decision = scenario.expectedDecision
    /\ Hints(scenario) # <<>> =>
          \E i \in 1..Len(result.flags), k \in 1..Len(Hints(scenario)) :
              FuzzyMatch(result.flags[i], Hints(scenario)[k])

(***************************************************************************)
(* C16.  For every scenario and every decision, DENY included: passed is   *)
(* true iff the decision equals expectedDecision and, when expectedFlags   *)
(* is supplied and non-empty, at least one actual flag fuzzy-matches       *)
(* (case-insensitive substring containment in either direction) at least   *)
(* one expected hint.  On DENY the evaluator returns before the hints are  *)
(* looked at, with passed the decision equality alone.                     *)
(***************************************************************************)
C16_PassedByBothCriteria ==
    \A i \in AmlDone : results[i].passed <=> PassCriteria(dataset[i], results[i])

(***************************************************************************)
(* C16, amended.  For every scenario whose decision is not DENY, passed is *)
(* true iff the decision equals expectedDecision and, when expectedFlags   *)
(* is supplied and non-empty, at least one actual flag fuzzy-matches at    *)
(* least one expected hint; with no hints, and for every scenario decided  *)
(* DENY whatever its hints, passed equals the decision equality alone.     *)
(***************************************************************************)
C16_PassedByBothCriteriaUnlessDenied ==
    \A i \in AmlDone :
        LET sc == dataset[i]
            r  == results[i]
        IN  /\ r.decision # "DENY" => (r.passed <=> PassCriteria(sc, r))
            /\ (r.decision = "DENY" \/ Hints(sc) = <<>>) =>
                   (r.passed <=> r.decision = sc.expectedDecision)

\* a flagged scenario with two hints, of which one matches a flag in another case, passed
C16_Witness ==
    \E i \in AmlDone :
        /\ results[i].decision = "ALLOW_WITH_FLAGS"
        /\ Len(Hints(dataset[i])) = 2
        /\ \E k \in 1..2 : \A f \in 1..Len(results[i].flags) :
              ~FuzzyMatch(results[i].flags[f], Hints(dataset[i])[k])
        /\ results[i].passed

(***************************************************************************)
(* C17.  Absent optional aggregates never match: without dailyStats the    *)
(* rule 'aml-high-velocity-24h' does not match, without recentTransactions *)
(* or with an empty list the rule 'aml-structuring-pattern' does not       *)
(* match; the evaluation returns a result, and the result is the one the   *)
(* same scenario gets with the aggregate present and below the rule's      *)
(* threshold, so the other rules are unaffected by the absence.            *)
(***************************************************************************)
C17_AbsentAggregatesNeverMatch ==
    \A i \in AmlDone :
        LET sc == dataset[i]
            r  == results[i]
        IN  /\ sc.dailyStats = <<>> =>
                  /\ ~Includes(r.matchedRules, "aml-high-velocity-24h")
                  /\ ~Includes(r.flags, "High Velocity 24H")
                  /\ r = evaluateTransaction(
                             [sc EXCEPT !.dailyStats = <<[transactionCount |-> 0]>>])
            /\ (sc.recentTransactions = <<>> \/ sc.recentTransactions = << <<>> >>) =>
                  /\ ~Includes(r.matchedRules, "aml-structuring-pattern")
                  /\ ~Includes(r.flags, "Structuring Pattern Detection")
                  /\ r = evaluateTransaction([sc EXCEPT !.recentTransactions = <<<<WireTxn>>>>])

\* a transaction in the structuring range, with neither aggregate, has been
\* flagged for its amount and not for velocity or a pattern
C17_Witness ==
    \E i \in AmlDone :
        /\ dataset[i].dailyStats = <<>>
        /\ dataset[i].recentTransactions = <<>>
        /\ Includes(results[i].matchedRules, "aml-structuring-amount")
        /\ Len(results[i].matchedRules) >= 2

\* the declared domain constraints of a loan: APR in [0, 1], no negative amount
ValidLoan(loan) ==
    /\ loan.loan.apr >= 0 /\ loan.loan.apr <= 100
    /\ loan.loan.principal >= 0
    /\ loan.loan.amount # <<>> => loan.loan.amount[1] >= 0

(***************************************************************************)
(* C18.  An input that violates a declared domain constraint (loan APR     *)
(* outside [0,1], negative amount or principal) is rejected with a         *)
(* ValidationError and produces no decision: no result with decision       *)
(* ALLOW, ALLOW_WITH_FLAGS or DENY is returned for it.  The evaluator      *)
(* validates nothing and decides such a loan like any other.               *)
(***************************************************************************)
C18_InvalidInputHasNoDecision ==
    \A i \in LoanDone :
        ~ValidLoan(dataset[i]) =>
            allResults[i].decision \notin {"ALLOW", "ALLOW_WITH_FLAGS", "DENY"}

\* the records of all the files of the run, as <<file, position>>
Positions ==
    UNION {{<<f, k>> : k \in 1..Len(datasetFiles[f])} : f \in 1..Len(datasetFiles)}

\* the records whose evaluation throws
ThrowingPositions ==
    {p \in Positions :
        IF script = "loan" THEN LoanThrows(datasetFiles[p[1]][p[2]])
        ELSE AmlThrows(datasetFiles[p[1]][p[2]])}

\* the run has ended: the loan script has its summary, the AML script has
\* reported its last file or has been ended by an error
RunFinished ==
    IF script = "loan" THEN summary # <<>>
    ELSE errors # <<>> \/ Len(allReports) = Len(datasetFiles)

RECURSIVE TotalScenarios(_)
TotalScenarios(reports) ==
    IF reports = <<>> THEN 0 ELSE Head(reports).totalScenarios + TotalScenarios(Tail(reports))

\* how many results the summary of the run holds
SummarisedCount ==
    IF script = "loan" THEN (IF summary = <<>> THEN 0 ELSE summary[1].totalLoans)
    ELSE TotalScenarios(allReports)

(***************************************************************************)
(* C19.  Per-scenario error isolation in the batch loops: if evaluating    *)
(* one scenario of a dataset throws, the error is recorded and every later *)
(* scenario of that dataset and of later datasets is still evaluated and   *)
(* included in the summary.  So when a run has ended, every record that    *)
(* throws has one recorded error and every other record is in the summary. *)
(* The loan script's try block encloses the loop over a whole file and the *)
(* AML script has none around its loops.                                   *)
(***************************************************************************)
C19_ErrorsIsolatedPerScenario ==
    RunFinished =>
        /\ Len(errors) = Cardinality(ThrowingPositions)
        /\ SummarisedCount = Cardinality(Positions \ ThrowingPositions)

\* a list of results in another order
Permuted(rs, p) == [k \in 1..Len(rs) |-> rs[p[k]]]

\* rulesFired as the count of each rule id in it
RulesFiredMap(rulesFired) ==
    [id \in {rulesFired[k].ruleId : k \in 1..Len(rulesFired)} |->
        RulesFiredCount(rulesFired, id)]

\* two summaries have the same counts
SameCounts(a, b) ==
    /\ a.totalLoans = b.totalLoans
    /\ a.results = b.results
    /\ RulesFiredMap(a.rulesFired) = RulesFiredMap(b.rulesFired)
    /\ a.rulesByCategory = b.rulesByCategory
    /\ a.jurisdictionBreakdown = b.jurisdictionBreakdown
    /\ a.riskDistribution = b.riskDistribution

\* the counts of a top list, in its order
TopCounts(top) == [k \in 1..Len(top) |-> top[k].count]

(***************************************************************************)
(* C20.  Aggregation is insensitive to submission order: for every list of *)
(* loan results and every permutation of it, generateSummary returns the   *)
(* same decision counts, rulesFired counts, rulesByCategory,               *)
(* jurisdictionBreakdown, riskDistribution and the same topTriggeredRules  *)
(* list (same rules in the same order).  Rules of equal count stand in the *)
(* top list in the order they were first seen, which a permutation changes.*)
(***************************************************************************)
C20_SummaryOrderInsensitive ==
    summary # <<>> =>
        \A p \in Permutations(1..Len(allResults)) :
            LET other == generateSummary(Permuted(allResults, p)) IN
            /\ SameCounts(summary[1], other)
            /\ summary[1].topTriggeredRules = other.topTriggeredRules

(***************************************************************************)
(* C20, amended.  For every list of loan results and every permutation of  *)
(* it, generateSummary returns the same decision counts, rulesFired        *)
(* counts, rulesByCategory, jurisdictionBreakdown and riskDistribution,    *)
(* and a topTriggeredRules list with the same counts in the same order;    *)
(* which rule stands at a place may differ among rules of equal count.     *)
(***************************************************************************)
C20_SummaryCountsOrderInsensitive ==
    summary # <<>> =>
        \A p \in Permutations(1..Len(allResults)) :
            LET other == generateSummary(Permuted(allResults, p)) IN
            /\ SameCounts(summary[1], other)
            /\ TopCounts(summary[1].topTriggeredRules) = TopCounts(other.topTriggeredRules)

\* a summary whose top list has rules of different counts, the first rule
\* seen not being the most frequent one
C20_Witness ==
    /\ summary # <<>>
    /\ Len(summary[1].rulesFired) >= 2
    /\ summary[1].rulesFired[1].count < summary[1].rulesFired[2].count
    /\ summary[1].topTriggeredRules[1].ruleId = summary[1].rulesFired[2].ruleId

\* the rule ids of the matched entries of a list of results, in the order
\* the results hold them
RECURSIVE FiredRuleIds(_)
FiredRuleIds(rs) ==
    IF rs = <<>> THEN <<>>
    ELSE LET matched == SelectSeq(Head(rs).rulesTriggered, LAMBDA rule : rule.matched)
         IN  [k \in 1..Len(matched) |-> matched[k].ruleId] \o FiredRuleIds(Tail(rs))

\* the place at which an element is first seen in a sequence
FirstSeen(seq, x) ==
    CHOOSE k \in 1..Len(seq) : seq[k] = x /\ \A j \in 1..(k - 1) : seq[j] # x

(***************************************************************************)
(* C21.  topTriggeredRules of generateSummary holds at most 10 entries,    *)
(* each with the rule's count from rulesFired, sorted by non-increasing    *)
(* count, with rules of equal count ordered by which rule id was first     *)
(* seen in the results; no rule left out has a strictly higher count than  *)
(* a rule included.                                                        *)
(***************************************************************************)
C21_TopRulesRanked ==
    summary # <<>> =>
        LET top  == summary[1].topTriggeredRules
            fired == FiredRuleIds(allResults)
            Count(id) == RulesFiredCount(summary[1].rulesFired, id)
        IN  /\ Len(top) <= 10
            /\ Len(top) = (IF Cardinality(Range(fired)) < 10
                           THEN Cardinality(Range(fired)) ELSE 10)
            /\ \A k \in 1..Len(top) :
                  /\ Includes(fired, top[k].ruleId)
                  /\ top[k].count = Count(top[k].ruleId)
            /\ \A a, b \in 1..Len(top) :
                  a < b =>
                      /\ top[a].ruleId # top[b].ruleId
                      /\ top[a].count >= top[b].count
                      /\ top[a].count = top[b].count =>
                             FirstSeen(fired, top[a].ruleId) < FirstSeen(fired, top[b].ruleId)
            /\ \A id \in Range(fired) \ {top[k].ruleId : k \in 1..Len(top)} :
                  \A k \in 1..Len(top) :
                      /\ Count(id) <= top[k].count
                      /\ Count(id) = top[k].count =>
                             FirstSeen(fired, top[k].ruleId) < FirstSeen(fired, id)

\* more than ten rules fired, one of them more often than the others, and
\* the first rule seen is not the most frequent one
C21_Witness ==
    /\ summary # <<>>
    /\ Len(summary[1].rulesFired) > 10
    /\ Len(summary[1].topTriggeredRules) = 10
    /\ summary[1].topTriggeredRules[1].count > summary[1].topTriggeredRules[2].count
    /\ summary[1].topTriggeredRules[1].ruleId # summary[1].rulesFired[1].ruleId

\* a cell of a jurisdiction breakdown, a missing jurisdiction counting as 0
JurisdictionCell(jurisdictionBreakdown, j) ==
    IF j \in DOMAIN jurisdictionBreakdown
    THEN jurisdictionBreakdown[j]
    ELSE [allowed |-> 0, denied |-> 0, flagged |-> 0]

RuleIdsOf(rulesFired) == {rulesFired[k].ruleId : k \in 1..Len(rulesFired)}

Kinds == {"allowed", "denied", "flagged"}

\* every count of the summary whole is the sum of that count in a and in b
AddsUp(whole, a, b) ==
    /\ whole.totalLoans = a.totalLoans + b.totalLoans
    /\ \A kind \in Kinds : whole.results[kind] = a.results[kind] + b.results[kind]
    /\ \A id \in RuleIdsOf(whole.rulesFired) \cup RuleIdsOf(a.rulesFired)
                                               \cup RuleIdsOf(b.rulesFired) :
          RulesFiredCount(whole.rulesFired, id)
              = RulesFiredCount(a.rulesFired, id) + RulesFiredCount(b.rulesFired, id)
    /\ DOMAIN whole.rulesByCategory = DOMAIN a.rulesByCategory
    /\ DOMAIN whole.rulesByCategory = DOMAIN b.rulesByCategory
    /\ \A c \in DOMAIN whole.rulesByCategory :
          whole.rulesByCategory[c] = a.rulesByCategory[c] + b.rulesByCategory[c]
    /\ \A j \in DOMAIN whole.jurisdictionBreakdown \cup DOMAIN a.jurisdictionBreakdown
                                                     \cup DOMAIN b.jurisdictionBreakdown :
          \A kind \in Kinds :
              JurisdictionCell(whole.jurisdictionBreakdown, j)[kind]
                  = JurisdictionCell(a.jurisdictionBreakdown, j)[kind]
                    + JurisdictionCell(b.jurisdictionBreakdown, j)[kind]
    /\ \A bucket \in DOMAIN whole.riskDistribution :
          whole.riskDistribution[bucket]
              = a.riskDistribution[bucket] + b.riskDistribution[bucket]

(***************************************************************************)
(* C22.  Aggregation additivity: for any two lists of loan results A and   *)
(* B, each count in generateSummary(A concatenated with B) (allowed,       *)
(* denied, flagged, totalLoans, every rulesFired entry, every              *)
(* rulesByCategory entry, every jurisdictionBreakdown cell, every          *)
(* riskDistribution bucket) equals the sum of the corresponding counts of  *)
(* generateSummary(A) and generateSummary(B), a missing key counting as 0. *)
(* Checked on the summary of a finished run against the summaries of       *)
(* every way of cutting its results in two.                                *)
(***************************************************************************)
C22_SummaryAdditive ==
    summary # <<>> =>
        \A k \in 0..Len(allResults) :
            AddsUp(summary[1],
                   generateSummary(SubSeq(allResults, 1, k)),
                   generateSummary(SubSeq(allResults, k + 1, Len(allResults))))

\* the first and the last result share a jurisdiction and a fired rule, and
\* another jurisdiction is seen in between
C22_Witness ==
    /\ summary # <<>>
    /\ Len(allResults) >= 3
    /\ allResults[1].jurisdiction = allResults[Len(allResults)].jurisdiction
    /\ allResults[2].jurisdiction # allResults[1].jurisdiction
    /\ \E id \in Range(FiredRuleIds(<<allResults[1]>>)) :
          /\ Includes(FiredRuleIds(<<allResults[Len(allResults)]>>), id)
          /\ RulesFiredCount(summary[1].rulesFired, id) >= 2

\* the scores a bucket of the histogram stands for
BucketScores ==
    [b \in RiskBuckets |->
        IF b = "LOW (0-25)" THEN 0..25
        ELSE IF b = "MEDIUM (26-50)" THEN 26..50
        ELSE IF b = "HIGH (51-75)" THEN 51..75
        ELSE 76..100]

RECURSIVE SumOver(_, _)
SumOver(f, S) ==
    IF S = {} THEN 0
    ELSE LET x == CHOOSE y \in S : TRUE IN f[x] + SumOver(f, S \ {x})

(***************************************************************************)
(* C23.  Risk histogram of generateSummary: every result with a riskScore  *)
(* is counted in exactly one of the four buckets, a score s falling in LOW *)
(* iff 0<=s<=25, MEDIUM iff 26<=s<=50, HIGH iff 51<=s<=75, CRITICAL iff    *)
(* 76<=s<=100; the four bucket counts sum to the number of results that    *)
(* have a riskScore.                                                       *)
(***************************************************************************)
C23_RiskHistogram ==
    summary # <<>> =>
        /\ DOMAIN summary[1].riskDistribution = RiskBuckets
        /\ \A i \in 1..Len(allResults) :
              Cardinality({b \in RiskBuckets : allResults[i].riskScore \in BucketScores[b]}) = 1
        /\ \A b \in RiskBuckets :
              summary[1].riskDistribution[b]
                  = Cardinality({i \in 1..Len(allResults) :
                                    allResults[i].riskScore \in BucketScores[b]})
        /\ SumOver(summary[1].riskDistribution, RiskBuckets) = Len(allResults)

\* results at the upper end of a bucket, and three buckets in use
C23_Witness ==
    /\ summary # <<>>
    /\ \E i, j \in 1..Len(allResults) :
          /\ allResults[i].riskScore = 25
          /\ allResults[j].riskScore = 75
    /\ summary[1].riskDistribution["LOW (0-25)"] >= 1
    /\ summary[1].riskDistribution["HIGH (51-75)"] >= 1
    /\ summary[1].riskDistribution["CRITICAL (76-100)"] >= 1

(***************************************************************************)
(* C24.  Decision counts partition the batch: in generateSummary allowed + *)
(* denied + flagged = totalLoans, and for each jurisdiction the three      *)
(* cells of jurisdictionBreakdown sum to the number of results of that     *)
(* jurisdiction and across jurisdictions to the global counts of each      *)
(* kind; in the AML report denials + flags + allows = totalScenarios and   *)
(* passed + failed = totalScenarios.                                       *)
(***************************************************************************)
C24_DecisionCountsPartition ==
    /\ summary # <<>> =>
          LET s  == summary[1]
              jb == s.jurisdictionBreakdown
          IN  /\ s.totalLoans = Len(allResults)
              /\ s.results.allowed + s.results.denied + s.results.flagged = s.totalLoans
              /\ DOMAIN jb = {allResults[i].jurisdiction : i \in 1..Len(allResults)}
              /\ \A j \in DOMAIN jb :
                    jb[j].allowed + jb[j].denied + jb[j].flagged
                        = Cardinality({i \in 1..Len(allResults) :
                                          allResults[i].jurisdiction = j})
              /\ \A kind \in Kinds :
                    SumOver([j \in DOMAIN jb |-> jb[j][kind]], DOMAIN jb) = s.results[kind]
    /\ \A r \in 1..Len(allReports) :
          LET report == allReports[r]
          IN  /\ report.summary.denials + report.summary.flags + report.summary.allows
                    = report.totalScenarios
              /\ report.passed + report.failed = report.totalScenarios

\* a loan summary with the three kinds of decision over several jurisdictions
C24_Witness ==
    /\ summary # <<>>
    /\ summary[1].results.allowed >= 1
    /\ summary[1].results.denied >= 1
    /\ summary[1].results.flagged >= 1
    /\ Cardinality(DOMAIN summary[1].jurisdictionBreakdown) >= 2

\* the number of rule matches a rulesFired table holds
RECURSIVE TotalFired(_)
TotalFired(rulesFired) ==
    IF rulesFired = <<>> THEN 0 ELSE Head(rulesFired).count + TotalFired(Tail(rulesFired))

\* the number of jurisdiction APR-cap matches in a list of results
AprCapDenials(rs) ==
    Len(SelectSeq(FiredRuleIds(rs), LAMBDA id : id \in AprCapRuleIds))

(***************************************************************************)
(* C25.  Category breakdown covers every firing: each matched rule in the  *)
(* results is counted once in rulesByCategory under its category, so the   *)
(* sum of rulesByCategory over all categories equals the sum of rulesFired *)
(* over all rule ids; in particular each jurisdiction APR-cap denial       *)
(* produced by evaluateLoanDirectly is counted under 'APR Caps'.           *)
(***************************************************************************)
C25_CategoriesCoverEveryFiring ==
    summary # <<>> =>
        /\ SumOver(summary[1].rulesByCategory, DOMAIN summary[1].rulesByCategory)
              = TotalFired(summary[1].rulesFired)
        /\ summary[1].rulesByCategory["APR Caps"] = AprCapDenials(allResults)

(***************************************************************************)
(* C26.  In every result of evaluateLoanDirectly, flags is exactly the     *)
(* sequence of code fields of rulesTriggered in the same order (same       *)
(* length, i-th flag equals the code of the i-th matched rule), and every  *)
(* rulesTriggered entry has matched = true; in every AML result that is    *)
(* not DENY, flags and matchedRules have the same length.                  *)
(***************************************************************************)
C26_FlagsMirrorTrail ==
    /\ \A i \in LoanDone :
          LET result == allResults[i]
          IN  /\ Len(result.flags) = Len(result.rulesTriggered)
              /\ \A k \in 1..Len(result.rulesTriggered) :
                    /\ k <= Len(result.flags) => result.flags[k] = result.rulesTriggered[k].code
                    /\ result.rulesTriggered[k].matched = TRUE
    /\ \A i \in AmlDone :
          results[i].decision # "DENY" =>
              Len(results[i].flags) = Len(results[i].matchedRules)

\* a loan result with several flag rules in its trail
C26_Witness ==
    \E i \in LoanDone :
        /\ allResults[i].decision = "ALLOW_WITH_FLAGS"
        /\ Len(allResults[i].rulesTriggered) >= 3
        /\ Len(allResults[i].flags) >= 3

(***************************************************************************)
(* C27.  Loan flag rules that refine one another: in every result of       *)
(* evaluateLoanDirectly, JUMBO_LOAN appears only together with             *)
(* LARGE_LOAN_REVIEW, SHADOW_CREDIT_RISK appears only together with        *)
(* NEAR_PRIME_CREDIT, SUBPRIME_CREDIT and NEAR_PRIME_CREDIT never appear   *)
(* together, HIGH_DTI and SHADOW_DTI_RISK never appear together, and       *)
(* PAYDAY_LOAN_SCRUTINY never appears for a borrower whose riskBand is     *)
(* SUBPRIME or DEEP_SUBPRIME.                                              *)
(***************************************************************************)
C27_RefiningLoanFlags ==
    \A i \in LoanDone :
        LET flags == allResults[i].flags
        IN  /\ Includes(flags, "JUMBO_LOAN") => Includes(flags, "LARGE_LOAN_REVIEW")
            /\ Includes(flags, "SHADOW_CREDIT_RISK") => Includes(flags, "NEAR_PRIME_CREDIT")
            /\ ~(Includes(flags, "SUBPRIME_CREDIT") /\ Includes(flags, "NEAR_PRIME_CREDIT"))
            /\ ~(Includes(flags, "HIGH_DTI") /\ Includes(flags, "SHADOW_DTI_RISK"))
            /\ dataset[i].borrower.riskBand \in {"SUBPRIME", "DEEP_SUBPRIME"} =>
                   ~Includes(flags, "PAYDAY_LOAN_SCRUTINY")

\* a result flagged HIGH_DTI whose loan has one more flag rule matching
C27_Witness ==
    \E i \in LoanDone :
        /\ Includes(allResults[i].flags, "HIGH_DTI")
        /\ Len(allResults[i].flags) >= 2

(***************************************************************************)
(* C28.  AML dependent flag rules: in every non-DENY result of             *)
(* evaluateTransaction, exactly one of 'aml-pep-enhanced' and              *)
(* 'aml-pep-any' is matched when customer.isPEP is true and neither when   *)
(* it is false; 'aml-high-risk-country-amount' is matched only if          *)
(* 'aml-fatf-greylist' is matched; and 'aml-fatf-greylist' and             *)
(* 'aml-offshore-center' are never both matched.                           *)
(***************************************************************************)
C28_DependentAmlFlags ==
    \A i \in AmlDone :
        results[i].decision # "DENY" =>
            LET matched  == results[i].matchedRules
                enhanced == Includes(matched, "aml-pep-enhanced")
                any      == Includes(matched, "aml-pep-any")
            IN  /\ dataset[i].customer.isPEP => (enhanced /\ ~any) \/ (any /\ ~enhanced)
                /\ ~dataset[i].customer.isPEP => ~enhanced /\ ~any
                /\ Includes(matched, "aml-high-risk-country-amount") =>
                       Includes(matched, "aml-fatf-greylist")
                /\ ~(Includes(matched, "aml-fatf-greylist")
                       /\ Includes(matched, "aml-offshore-center"))

\* a politically exposed customer's transaction at or over the enhanced threshold
C28_Witness ==
    \E i \in AmlDone :
        /\ results[i].decision # "DENY"
        /\ dataset[i].customer.isPEP
        /\ Includes(results[i].matchedRules, "aml-pep-enhanced")

====
